---- MODULE Spec2Model ----
(***************************************************************************)
(* Model of SpotifyRecs.  First the audio-feature ML pipeline              *)
(* (ml_processing/audio_features_ml.py): AudioFeatureProcessor and its     *)
(* process() pipeline: load, normalize, UMAP, optional cluster-count       *)
(* sweep, K-means, cosine-similarity edges, and the four artifact writes.  *)
(*                                                                         *)
(* Numbers.  Cosine similarities and the similarity threshold are kept as  *)
(* exact integers in units of 1/SimScale (25 = 1.0).  Feature rows are     *)
(* integer 2-vectors whose norms are integers, so every cosine is exact.   *)
(* Silhouette scores are abstract integer levels.                          *)
(*                                                                         *)
(* Library code (StandardScaler, UMAP, KMeans, silhouette_score) is not    *)
(* part of the repository.  What the pipeline observes of it is modelled:  *)
(* the rows StandardScaler returns are drawn with the input, KMeans and    *)
(* silhouette_score raise ValueError on the argument combinations sklearn  *)
(* rejects, and the silhouette level of a partition is drawn from Scores.  *)
(* UMAP's embedding is an uninterpreted term per row.                      *)
(*                                                                         *)
(* Specifications.  Spec: process() called repeatedly on one processor.    *)
(* SpecSim, SpecSimIds: calculate_similarities alone, without and with     *)
(* repeated track ids.  SpecEmb: one call of process() on processors that  *)
(* differ in the UMAP parameters.                                          *)
(*                                                                         *)
(* The other programs of the repository are modelled after the pipeline,   *)
(* each with its own variables and specification: the API server           *)
(* (SpecApi), the singleton constructors of the database clients under     *)
(* concurrent calls (SpecNew), extract_playlist_ids (SpecIds),             *)
(* convert_csv_to_json (SpecCsv) and load_mongodb (SpecLoad).  In each     *)
(* specification the variables of the other programs keep their idle       *)
(* values.                                                                 *)
(***************************************************************************)
EXTENDS Integers, Sequences, FiniteSets, Bags

VARIABLES
    n_clusters,            \* self.n_clusters
    n_neighbors,           \* self.n_neighbors
    min_dist,              \* self.min_dist (in tenths)
    similarity_threshold,  \* self.similarity_threshold (in 1/SimScale)
    top_n_similar,         \* self.top_n_similar
    input,                 \* the records of the input JSON file
    scaled,                \* what StandardScaler yields for record i of the input
    optimize_clusters,     \* argument of process()
    k_range,               \* argument of process(): [start, stop]
    pc,                    \* the stage process() is at
    status,                \* "idle", "running", "done" or "failed"
    df,                    \* the retained records
    normalized_features,   \* local of process()
    embeddings,            \* local of process()
    optimization_results,  \* local of process()
    cluster_labels,        \* local of process()
    kmeans,                \* the fitted model: its n_clusters (0: none)
    sil_score,             \* local of process()
    row,                   \* loop index i of calculate_similarities (1-based)
    edges,                 \* the edge list, as a bag of edge records
    stats,                 \* the statistics dictionary
    files,                 \* the output directory: file name -> what a reader finds
    written                \* file name -> what this call of process() wrote to it

\* The API server (api/app.py, api/routes, api/database)
VARIABLES
    mongo_server,          \* "up" or "down": whether the MongoDB server answers
    neo4j_server,          \* "up" or "down": whether the Neo4j server answers
    _client,               \* MongoDBClient._client: "unset", "None" or "MongoClient"
    _driver,               \* Neo4jClient._driver: "unset", "None" or "Driver"
    collection,            \* the documents of the tracks collection, by track_id
    graph,                 \* the SIMILAR_TO relationships between Track nodes
    request,               \* the request being handled
    response,              \* the response to it (NoResponse until the handler returns)
    queried                \* the database calls the handler has made for it

\* The singleton classes (MongoDBClient.__new__, Neo4jClient.__new__) under
\* concurrent constructor calls
VARIABLES
    _instance,             \* cls._instance of each class: an object, or None
    objects,               \* the objects created, with the runs of _initialize on each
    thread                 \* each thread: where it is in __new__, and what it returned

\* data_collection/spotify_collector.py: extract_playlist_ids
VARIABLES
    input_text,            \* the argument, as a sequence of tokens
    playlist_ids           \* the result: NotCalled, or returned with the list

\* data_collection/kaggle_conversion.py: convert_csv_to_json
VARIABLES
    csv_file,              \* the data rows of the CSV file
    row_num,               \* the row the loop is at (1-based index into csv_file)
    tracks,                \* local: the tracks converted so far
    skipped_count,         \* local
    duplicate_count,       \* local
    seen_combinations,     \* local: the (title, artist) keys seen
    output_file            \* the JSON file: NotWrittenYet or the list saved

\* database_setup/load_mongo.py: load_mongodb
VARIABLES
    json_file,             \* the processed JSON file: missing, unreadable, or a list
    loader_pc,             \* the step load_mongodb is at
    loader_tracks,         \* local tracks
    loader_result          \* "running", "failed" or "loaded"

\* The state of the ML pipeline
pipeline == <<n_clusters, n_neighbors, min_dist, similarity_threshold, top_n_similar,
              input, scaled, optimize_clusters, k_range, pc, status, df,
              normalized_features, embeddings, optimization_results, cluster_labels,
              kmeans, sil_score, row, edges, stats, files, written>>

\* The state of the API server
api == <<mongo_server, neo4j_server, _client, _driver, collection, graph,
         request, response, queried>>

classes == <<_instance, objects, thread>>

collector == <<input_text, playlist_ids>>

converter == <<csv_file, row_num, tracks, skipped_count, duplicate_count,
               seen_combinations, output_file>>

loader == <<json_file, loader_pc, loader_tracks, loader_result>>

\* The state of the command-line scripts
scripts == <<collector, converter, loader>>

\* The state of the programs other than the pipeline
programs == <<api, classes, scripts>>

vars == <<pipeline, programs>>

config == <<n_clusters, n_neighbors, min_dist, similarity_threshold, top_n_similar>>

\* No request is being handled; the handler has not returned
NoRequest == [route |-> "none"]

NoResponse == [status |-> 0]

\* The API server has not been started
ApiIdle ==
    /\ mongo_server = "down"
    /\ neo4j_server = "down"
    /\ _client = "unset"
    /\ _driver = "unset"
    /\ collection = <<>>
    /\ graph = {}
    /\ request = NoRequest
    /\ response = NoResponse
    /\ queried = <<>>

\* No thread is in a constructor
ClassesIdle ==
    /\ _instance = <<>>
    /\ objects = <<>>
    /\ thread = <<>>

\* extract_playlist_ids has not been called
NotCalled == [returned |-> FALSE]

CollectorIdle ==
    /\ input_text = <<>>
    /\ playlist_ids = NotCalled

\* convert_csv_to_json has not been called
NotWrittenYet == [saved |-> FALSE]

ConverterIdle ==
    /\ csv_file = <<>>
    /\ row_num = 1
    /\ tracks = <<>>
    /\ skipped_count = 0
    /\ duplicate_count = 0
    /\ seen_combinations = {}
    /\ output_file = NotWrittenYet

\* load_mongodb has not been called
LoaderIdle ==
    /\ json_file = [state |-> "missing"]
    /\ loader_pc = "exists"
    /\ loader_tracks = <<>>
    /\ loader_result = "running"

ScriptsIdle == CollectorIdle /\ ConverterIdle /\ LoaderIdle

\* Only the pipeline runs
ProgramsIdle == ApiIdle /\ ClassesIdle /\ ScriptsIdle

-----------------------------------------------------------------------------
(* Bounds of the model *)

MaxTracks == 4     \* records in the input file of a pipeline run
MaxSimTracks == 3  \* rows of the feature matrix given to calculate_similarities
MaxTopN == 2       \* largest top_n_similar
MaxK == 3          \* largest configured cluster count and sweep start
MaxScore == 1      \* silhouette levels 0..MaxScore

(* Program constants *)

SimScale == 25            \* cosine similarity 1.0
DefaultNNeighbors == 15   \* __init__ n_neighbors
DefaultMinDist == 1       \* __init__ min_dist = 0.1, in tenths
DefaultKStart == 2        \* process() k_range = range(2, 21)
DefaultKStop == 21

-----------------------------------------------------------------------------
(* Arithmetic helpers *)

Min(a, b) == IF a <= b THEN a ELSE b

Max(a, b) == IF a >= b THEN a ELSE b

-----------------------------------------------------------------------------
(* Feature rows and cosine similarity (sklearn cosine_similarity, line 196) *)

Vecs == {<<5, 0>>, <<6, 8>>, <<-3, 4>>, <<0, 0>>}

Dot(u, v) == u[1] * v[1] + u[2] * v[2]

Norm(u) == CHOOSE r \in 0..10 : r * r = Dot(u, u)

\* cosine_similarity normalises each row (an all-zero row stays zero) and
\* takes the dot product.
CosineSimilarity(u, v) ==
    IF Norm(u) = 0 \/ Norm(v) = 0 THEN 0
    ELSE (Dot(u, v) * SimScale) \div (Norm(u) * Norm(v))

\* similarity_matrix after np.fill_diagonal(similarity_matrix, 0)
SimilarityMatrix(features) ==
    [a \in 1..Len(features) |->
        [b \in 1..Len(features) |->
            IF a = b THEN 0 ELSE CosineSimilarity(features[a], features[b])]]

-----------------------------------------------------------------------------
(* calculate_similarities (lines 184-228) *)

\* A slice that is one element short, a[-(t - 1):] for t > 1
TopCount_OneFewer(n, t) ==
    IF t > 1 THEN Min(t - 1, n)
    ELSE IF t = 1 THEN 0
    ELSE IF t = 0 THEN n
    ELSE Max(n + t, 0)

\* Length of the Python slice a[-t:] of an array of n elements: the last t
\* elements for t > 0, the whole array for t = 0 (a[-0:] is a[0:]), and
\* a[|t|:] for t < 0.
TopCount(n, t) ==
    IF t > 0 THEN Min(t, n)
    ELSE IF t = 0 THEN n
    ELSE Max(n + t, 0)

\* The index sets np.argsort(similarities)[-top_n:] can hold: the c last
\* positions of an ascending sort.  argsort's order among equal values is
\* unspecified, so every set of c indices that no outside index beats is
\* possible.
TopSets(similarities, c) ==
    {T \in SUBSET (DOMAIN similarities) :
        /\ Cardinality(T) = c
        /\ \A a \in T : \A b \in (DOMAIN similarities) \ T :
              similarities[a] >= similarities[b]}

\* No filtering by the threshold
PassesThreshold_NoFilter(sim_score, threshold) == TRUE

\* A threshold clipped to 1.0 before the comparison
PassesThreshold_Clipped(sim_score, threshold) == sim_score >= Min(threshold, SimScale)

\* line 214: if sim_score >= self.similarity_threshold
PassesThreshold(sim_score, threshold) == sim_score >= threshold

\* lines 215-219: the edge appended for target index j of source index i
Edge(track_ids, similarities, i, j) ==
    [source |-> track_ids[i], target |-> track_ids[j], similarity |-> similarities[j]]

\* lines 212-219: the edges appended for source i, one per index of
\* top_indices that passes the threshold
RECURSIVE RowEdges(_, _, _, _, _)
RowEdges(track_ids, similarities, i, T, threshold) ==
    IF T = {} THEN EmptyBag
    ELSE LET j == CHOOSE x \in T : TRUE
             rest == RowEdges(track_ids, similarities, i, T \ {j}, threshold)
         IN  IF PassesThreshold(similarities[j], threshold)
             THEN SetToBag({Edge(track_ids, similarities, i, j)}) (+) rest
             ELSE rest

TrackIds(d) == [i \in 1..Len(d) |-> d[i].track_id]

\* One iteration of the loop of line 204, for source index row.
CalculateSimilaritiesRow ==
    /\ status = "running"
    /\ pc = "similarity"
    /\ row <= Len(df)
    /\ LET similarities == SimilarityMatrix(normalized_features)[row]
           c == TopCount(Len(similarities), top_n_similar)
       IN  \E T \in TopSets(similarities, c) :
              edges' = edges (+) RowEdges(TrackIds(df), similarities, row, T,
                                          similarity_threshold)
    /\ row' = row + 1
    /\ UNCHANGED <<programs, config, input, scaled, optimize_clusters, k_range, pc, status, df,
                   normalized_features, embeddings, optimization_results,
                   cluster_labels, kmeans, sil_score, stats, files, written>>

\* line 228: return edges (the loop has visited every track)
CalculateSimilaritiesReturn ==
    /\ status = "running"
    /\ pc = "similarity"
    /\ row > Len(df)
    /\ pc' = "write_tracks"
    /\ UNCHANGED <<programs, config, input, scaled, optimize_clusters, k_range, status, df,
                   normalized_features, embeddings, optimization_results,
                   cluster_labels, kmeans, sil_score, row, edges, stats, files, written>>

-----------------------------------------------------------------------------
(* State shared by the specifications *)

FileNames == {"tracks_with_clusters.json", "neo4j_nodes.json",
              "neo4j_edges.json", "processing_stats.json"}

NoOptimization ==
    [present |-> FALSE, optimal_k |-> 0, optimal_score |-> 0,
     all_k_values |-> <<>>, all_scores |-> <<>>]

\* A ratio a / b of two integers, kept exact
Ratio(a, b) == [num |-> a, den |-> b]

NoStats ==
    [present |-> FALSE, total_tracks |-> 0, n_clusters |-> 0, silhouette_score |-> 0,
     total_edges |-> 0, avg_edges_per_track |-> Ratio(0, 1),
     umap_params |-> [n_neighbors |-> 0, min_dist |-> 0],
     similarity_threshold |-> 0, top_n_similar |-> 0,
     optimization |-> [optimized |-> FALSE]]

\* Nothing written yet under a file name by the call in progress
NotWritten == [present |-> FALSE, content |-> <<>>]

NoArtifacts == [f \in FileNames |-> NotWritten]

Thresholds == {0, 15, 25, 28}

TopNs == 0..MaxTopN

-----------------------------------------------------------------------------
(* Library behaviour the pipeline observes (sklearn) *)

Scores == 0..MaxScore

RangeSet(r) == r.start..(r.stop - 1)

Distinct(features) == Cardinality({features[i] : i \in 1..Len(features)})

\* KMeans(n_clusters=k).fit_predict raises ValueError unless 1 <= k <= n_samples.
KMeansRaises(features, k) == k < 1 \/ k > Len(features)

\* Number of distinct labels KMeans returns: k, or the number of distinct
\* points when there are fewer than k of them.
NLabels(features, k) == Min(k, Distinct(features))

\* silhouette_score raises ValueError unless 2 <= n_labels <= n_samples - 1.
SilhouetteRaises(features, k) ==
    NLabels(features, k) < 2 \/ NLabels(features, k) > Len(features) - 1

\* The labels KMeans(random_state=42) returns: a function of (features, k);
\* equal points share a label and NLabels labels of 0..k-1 are used.
KMeansLabels(features, k) ==
    CHOOSE lab \in [1..Len(features) -> 0..(k - 1)] :
        /\ \A a, b \in 1..Len(features) :
              features[a] = features[b] => lab[a] = lab[b]
        /\ Cardinality({lab[a] : a \in 1..Len(features)}) = NLabels(features, k)

-----------------------------------------------------------------------------
(* find_optimal_clusters (lines 110-150) *)

\* The candidate k values in loop order: k_range is range(start, stop).
KValues(r) == [x \in 1..Max(r.stop - r.start, 0) |-> r.start + x - 1]

\* A sweep that skips the candidates KMeans or silhouette_score reject
SweepRaises_SkipsRejected(features, r) == RangeSet(r) = {}

\* The loop of line 127 raises at the first k that KMeans or
\* silhouette_score rejects; np.argmax raises ValueError on an empty list.
SweepRaises(features, r) ==
    \/ \E k \in RangeSet(r) : KMeansRaises(features, k) \/ SilhouetteRaises(features, k)
    \/ RangeSet(r) = {}

\* A scan that keeps the last index holding the maximum
RECURSIVE ArgMaxScanLast(_, _, _)
ArgMaxScanLast(scores, x, best) ==
    IF x > Len(scores) THEN best
    ELSE ArgMaxScanLast(scores, x + 1, IF scores[x] >= scores[best] THEN x ELSE best)

ArgMax_LastMaximum(scores) == ArgMaxScanLast(scores, 2, 1)

\* np.argmax scans the list once and keeps the first index holding the
\* maximum: a later element replaces the best only when strictly greater.
RECURSIVE ArgMaxScan(_, _, _)
ArgMaxScan(scores, x, best) ==
    IF x > Len(scores) THEN best
    ELSE ArgMaxScan(scores, x + 1, IF scores[x] > scores[best] THEN x ELSE best)

\* line 138: np.argmax(silhouette_scores), of a non-empty list (1-based)
ArgMax(scores) == ArgMaxScan(scores, 2, 1)

\* lines 137-150: the returned dictionary for the scores of the sweep
OptimalClusters(k_values, silhouette_scores) ==
    [present |-> TRUE,
     optimal_k |-> k_values[ArgMax(silhouette_scores)],
     optimal_score |-> silhouette_scores[ArgMax(silhouette_scores)],
     all_k_values |-> k_values,
     all_scores |-> silhouette_scores]

-----------------------------------------------------------------------------
(* process (lines 230-342), one action per stage *)

Stages == <<"load", "normalize", "umap", "select", "cluster", "similarity",
            "write_tracks", "write_nodes", "write_edges", "write_stats", "end">>

Rank(stage) == CHOOSE x \in 1..Len(Stages) : Stages[x] = stage

KRanges == [start : 2..MaxK, stop : 2..(MaxK + 1)]

DefaultKRange == [start |-> DefaultKStart, stop |-> DefaultKStop]

\* What a reader finds under a file name, relative to the run in progress (or
\* the last one started): "prior", what the directory held before the run
\* began (no file, or the file an earlier run left); "current", the file this
\* run wrote; "torn", a file this run truncated and did not finish.
FileStates == {"prior", "current", "torn"}

\* Once a new run begins, whatever the directory holds predates it.
Aged(tag) == "prior"

\* lines 230-246: process() is called on the processor.
Process ==
    /\ status = "idle"
    /\ optimize_clusters' \in BOOLEAN
    /\ k_range' \in IF optimize_clusters' THEN KRanges ELSE {DefaultKRange}
    /\ pc' = "load"
    /\ status' = "running"
    /\ files' = [f \in FileNames |-> Aged(files[f])]
    /\ UNCHANGED <<programs, config, input, scaled, df, normalized_features, embeddings,
                   optimization_results, cluster_labels, kmeans, sil_score, row,
                   edges, stats, written>>

\* process() returns (line 342) or its exception reaches the caller: the
\* arguments and locals of the call are gone; the processor and the output
\* directory remain.
Return ==
    /\ status \in {"done", "failed"}
    /\ status' = "idle"
    /\ pc' = "load"
    /\ optimize_clusters' = FALSE
    /\ k_range' = DefaultKRange
    /\ df' = <<>>
    /\ normalized_features' = <<>>
    /\ embeddings' = <<>>
    /\ optimization_results' = NoOptimization
    /\ cluster_labels' = <<>>
    /\ kmeans' = 0
    /\ sil_score' = 0
    /\ row' = 1
    /\ edges' = EmptyBag
    /\ stats' = NoStats
    /\ written' = NoArtifacts
    /\ UNCHANGED <<programs, config, input, scaled, files>>

\* The rows dropna(subset=feature_columns) keeps (line 60): those with no
\* null among the nine feature values, whatever the type of the values.
DropNa(records) == SelectSeq(records, LAMBDA r : r.complete)

\* line 55: df[self.feature_columns] raises KeyError when a feature column
\* is absent from the frame: always for a file of no records (the frame has
\* no columns), and for a file in which some feature key is missing from
\* every record (then no record is complete).
MayRaiseKeyError(records) == \A i \in 1..Len(records) : ~records[i].complete

MustRaiseKeyError(records) == Len(records) = 0

\* load_data (lines 44-64): rows with a missing feature value are dropped.
LoadData ==
    /\ status = "running"
    /\ pc = "load"
    /\ \/ /\ ~MustRaiseKeyError(input)
          /\ df' = DropNa(input)
          /\ pc' = "normalize"
          /\ UNCHANGED status
       \/ /\ MayRaiseKeyError(input)
          /\ status' = "failed"
          /\ UNCHANGED <<df, pc>>
    /\ UNCHANGED <<programs, config, input, scaled, optimize_clusters, k_range,
                   normalized_features, embeddings, optimization_results,
                   cluster_labels, kmeans, sil_score, row, edges, stats, files, written>>

\* A scaler that returns an empty matrix for an empty one
ScalerRaises_AcceptsEmpty(d) == \E i \in 1..Len(d) : ~d[i].numeric

\* StandardScaler.fit_transform raises ValueError on a matrix of 0 rows and
\* on a matrix holding a value that cannot be converted to a float.
ScalerRaises(d) == Len(d) = 0 \/ \E i \in 1..Len(d) : ~d[i].numeric

\* normalize_features (lines 66-84)
NormalizeFeatures ==
    /\ status = "running"
    /\ pc = "normalize"
    /\ IF ScalerRaises(df)
       THEN /\ status' = "failed"
            /\ UNCHANGED <<normalized_features, pc>>
       ELSE /\ normalized_features' = [i \in 1..Len(df) |-> scaled[df[i].index]]
            /\ pc' = "umap"
            /\ UNCHANGED status
    /\ UNCHANGED <<programs, config, input, scaled, optimize_clusters, k_range, df,
                   embeddings, optimization_results,
                   cluster_labels, kmeans, sil_score, row, edges, stats, files, written>>

\* UMAP(n_neighbors, min_dist, random_state=42).fit_transform(features) is
\* taken to return an embedding of every non-empty matrix.  Row i of the
\* embedding is kept as the term that determines it: the row number, the
\* matrix and the two parameters (the seed is fixed).
Umap(features, neighbors, dist) ==
    [i \in 1..Len(features) |->
        [point |-> i, of |-> features, n_neighbors |-> neighbors, min_dist |-> dist]]

\* perform_umap (lines 86-108) and lines 257-259
PerformUmap ==
    /\ status = "running"
    /\ pc = "umap"
    /\ embeddings' = Umap(normalized_features, n_neighbors, min_dist)
    /\ pc' = IF optimize_clusters THEN "select" ELSE "cluster"
    /\ UNCHANGED <<programs, config, input, scaled, optimize_clusters, k_range, status, df,
                   normalized_features, optimization_results,
                   cluster_labels, kmeans, sil_score, row, edges, stats, files, written>>

\* lines 263-265: find_optimal_clusters and self.n_clusters = optimal_k
FindOptimalClusters ==
    /\ status = "running"
    /\ pc = "select"
    /\ IF SweepRaises(normalized_features, k_range)
       THEN /\ status' = "failed"
            /\ UNCHANGED <<optimization_results, n_clusters, pc>>
       ELSE /\ \E scores \in [1..Len(KValues(k_range)) -> Scores] :
                  optimization_results' = OptimalClusters(KValues(k_range), scores)
            /\ n_clusters' = optimization_results'.optimal_k
            /\ pc' = "cluster"
            /\ UNCHANGED status
    /\ UNCHANGED <<programs, n_neighbors, min_dist, similarity_threshold, top_n_similar,
                   input, scaled, optimize_clusters, k_range, df,
                   normalized_features, embeddings,
                   cluster_labels, kmeans, sil_score, row, edges, stats, files, written>>

\* Clustering with the first candidate of k_range
ClusteringK_RangeStart == k_range.start

\* The cluster count perform_clustering gives to KMeans (line 163)
ClusteringK == n_clusters

\* Clustering the 2-D embedding
ClusteringInput_Embeddings == embeddings

\* The matrix process() hands to perform_clustering (line 268)
ClusteringInput == normalized_features

\* Saving right after clustering
AfterClustering_Save == "write_tracks"

\* What process() does once perform_clustering has returned: lines 271-277,
\* the call of calculate_similarities
AfterClustering == "similarity"

\* perform_clustering (lines 152-182) and lines 268-271.  The silhouette of
\* a k the sweep has scored is the score the sweep recorded (same seed).
PerformClustering ==
    /\ status = "running"
    /\ pc = "cluster"
    /\ IF KMeansRaises(ClusteringInput, ClusteringK)
          \/ SilhouetteRaises(ClusteringInput, ClusteringK)
       THEN /\ status' = "failed"
            /\ UNCHANGED <<cluster_labels, kmeans, sil_score, pc>>
       ELSE /\ kmeans' = ClusteringK
            /\ cluster_labels' = KMeansLabels(ClusteringInput, ClusteringK)
            /\ sil_score' \in IF optimization_results.present
                              THEN {optimization_results.optimal_score}
                              ELSE Scores
            /\ pc' = AfterClustering
            /\ UNCHANGED status
    /\ UNCHANGED <<programs, config, input, scaled, optimize_clusters, k_range, df,
                   normalized_features, embeddings, optimization_results,
                   row, edges, stats, files, written>>

\* A write of one artifact file.  It either completes, or raises (OSError)
\* leaving the file as it was or truncated and partly written.
WriteFile(name, content, next) ==
    \/ /\ files' = [files EXCEPT ![name] = "current"]
       /\ written' = [written EXCEPT ![name] = [present |-> TRUE, content |-> content]]
       /\ pc' = next
       /\ status' = IF next = "end" THEN "done" ELSE status
    \/ /\ \E left \in {files[name], "torn"} : files' = [files EXCEPT ![name] = left]
       /\ status' = "failed"
       /\ UNCHANGED <<pc, written>>

\* Cluster ids numbered from 1
Tracks_ClusterIdsFromOne ==
    [i \in 1..Len(df) |->
        [track_id |-> df[i].track_id, embedding |-> embeddings[i],
         cluster_id |-> cluster_labels[i] + 1]]

\* The records of df once lines 258-259 and 271 have added the embedding and
\* cluster_id columns (the two writes serialise the same rows; line 287
\* selects the columns of the nodes)
Tracks ==
    [i \in 1..Len(df) |->
        [track_id |-> df[i].track_id, embedding |-> embeddings[i],
         cluster_id |-> cluster_labels[i]]]

Nodes ==
    [i \in 1..Len(df) |->
        [track_id |-> df[i].track_id, cluster_id |-> cluster_labels[i]]]

\* lines 282-284: df.to_json(tracks_output)
WriteTracks ==
    /\ status = "running"
    /\ pc = "write_tracks"
    /\ WriteFile("tracks_with_clusters.json", Tracks, "write_nodes")
    /\ UNCHANGED <<programs, config, input, scaled, optimize_clusters, k_range, df,
                   normalized_features, embeddings, optimization_results,
                   cluster_labels, kmeans, sil_score, row, edges, stats>>

\* lines 287-291: neo4j_nodes.json
WriteNodes ==
    /\ status = "running"
    /\ pc = "write_nodes"
    /\ WriteFile("neo4j_nodes.json", Nodes, "write_edges")
    /\ UNCHANGED <<programs, config, input, scaled, optimize_clusters, k_range, df,
                   normalized_features, embeddings, optimization_results,
                   cluster_labels, kmeans, sil_score, row, edges, stats>>

\* lines 294-297: neo4j_edges.json
WriteEdges ==
    /\ status = "running"
    /\ pc = "write_edges"
    /\ WriteFile("neo4j_edges.json", edges, "write_stats")
    /\ UNCHANGED <<programs, config, input, scaled, optimize_clusters, k_range, df,
                   normalized_features, embeddings, optimization_results,
                   cluster_labels, kmeans, sil_score, row, edges, stats>>

\* Statistics that count the records of the input file
Statistics_CountsInputRecords ==
    [present |-> TRUE,
     total_tracks |-> Len(input),
     n_clusters |-> n_clusters,
     silhouette_score |-> sil_score,
     total_edges |-> BagCardinality(edges),
     avg_edges_per_track |-> Ratio(BagCardinality(edges), Len(input)),
     umap_params |-> [n_neighbors |-> n_neighbors, min_dist |-> min_dist],
     similarity_threshold |-> similarity_threshold,
     top_n_similar |-> top_n_similar,
     optimization |->
        IF optimization_results.present
        THEN [optimized |-> TRUE,
              optimal_k |-> optimization_results.optimal_k,
              optimal_score |-> optimization_results.optimal_score,
              tested_k_values |-> optimization_results.all_k_values,
              all_silhouette_scores |-> optimization_results.all_scores]
        ELSE [optimized |-> FALSE]]

\* lines 300-324: the statistics dictionary
Statistics ==
    [present |-> TRUE,
     total_tracks |-> Len(df),
     n_clusters |-> n_clusters,
     silhouette_score |-> sil_score,
     total_edges |-> BagCardinality(edges),
     avg_edges_per_track |-> Ratio(BagCardinality(edges), Len(df)),
     umap_params |-> [n_neighbors |-> n_neighbors, min_dist |-> min_dist],
     similarity_threshold |-> similarity_threshold,
     top_n_similar |-> top_n_similar,
     optimization |->
        IF optimization_results.present
        THEN [optimized |-> TRUE,
              optimal_k |-> optimization_results.optimal_k,
              optimal_score |-> optimization_results.optimal_score,
              tested_k_values |-> optimization_results.all_k_values,
              all_silhouette_scores |-> optimization_results.all_scores]
        ELSE [optimized |-> FALSE]]

\* lines 300-329: build the statistics and write processing_stats.json
WriteStats ==
    /\ status = "running"
    /\ pc = "write_stats"
    /\ stats' = Statistics
    /\ WriteFile("processing_stats.json", Statistics, "end")
    /\ UNCHANGED <<programs, config, input, scaled, optimize_clusters, k_range, df,
                   normalized_features, embeddings, optimization_results,
                   cluster_labels, kmeans, sil_score, row, edges>>

-----------------------------------------------------------------------------
(* Spec: a processor as constructed by main() (lines 364-370), on which      *)
(* process() is called any number of times over one input file               *)

\* The rows of an input file: records of nine numbers whose scaled features
\* are one of three directions, records with a missing (null or absent)
\* feature value, and records with a feature value that is no number (a
\* string such as "fast").
RowKinds ==
    <<[complete |-> TRUE, numeric |-> TRUE, z |-> <<5, 0>>],
      [complete |-> TRUE, numeric |-> TRUE, z |-> <<6, 8>>],
      [complete |-> TRUE, numeric |-> TRUE, z |-> <<-3, 4>>],
      [complete |-> FALSE, numeric |-> TRUE, z |-> <<0, 0>>],
      [complete |-> TRUE, numeric |-> FALSE, z |-> <<0, 0>>]>>

\* Input files differ by which kinds of rows they hold, not by row order.
\* The file may hold no record at all.
Catalogs ==
    UNION {{c \in [1..n -> 1..Len(RowKinds)] :
               \A a, b \in 1..n : a <= b => c[a] <= c[b]} : n \in 0..MaxTracks}

\* Record i of the input file: its position is the label the DataFrame
\* index gives it, which dropna keeps.
Record(i, id, kind) ==
    [index |-> i, track_id |-> id, complete |-> kind.complete, numeric |-> kind.numeric]

ProcThresholds == {15, 28}

ProcTopNs == {0, MaxTopN}

Init ==
    /\ n_clusters \in 2..MaxK
    /\ n_neighbors = DefaultNNeighbors
    /\ min_dist = DefaultMinDist
    /\ similarity_threshold \in ProcThresholds
    /\ top_n_similar \in ProcTopNs
    /\ \E c \in Catalogs :
          /\ input = [i \in DOMAIN c |-> Record(i, i, RowKinds[c[i]])]
          /\ scaled = [i \in DOMAIN c |-> RowKinds[c[i]].z]
    /\ optimize_clusters = FALSE
    /\ k_range = DefaultKRange
    /\ pc = "load"
    /\ status = "idle"
    /\ df = <<>>
    /\ normalized_features = <<>>
    /\ embeddings = <<>>
    /\ optimization_results = NoOptimization
    /\ cluster_labels = <<>>
    /\ kmeans = 0
    /\ sil_score = 0
    /\ row = 1
    /\ edges = EmptyBag
    /\ stats = NoStats
    /\ files = [f \in FileNames |-> "prior"]
    /\ written = NoArtifacts
    /\ ProgramsIdle

Next ==
    \/ Process
    \/ Return
    \/ LoadData
    \/ NormalizeFeatures
    \/ PerformUmap
    \/ FindOptimalClusters
    \/ PerformClustering
    \/ CalculateSimilaritiesRow
    \/ CalculateSimilaritiesReturn
    \/ WriteTracks
    \/ WriteNodes
    \/ WriteEdges
    \/ WriteStats

Spec == Init /\ [][Next]_vars

-----------------------------------------------------------------------------
(* SpecSim: calculate_similarities as a function of its feature matrix, its  *)
(* track ids and the processor's threshold and top_n                         *)

InitSim ==
    /\ n_clusters = 2
    /\ n_neighbors = DefaultNNeighbors
    /\ min_dist = DefaultMinDist
    /\ similarity_threshold \in Thresholds
    /\ top_n_similar \in TopNs
    /\ \E n \in 2..MaxSimTracks :
          /\ input = [i \in 1..n |-> Record(i, i, RowKinds[1])]
          /\ scaled \in [1..n -> Vecs]
    /\ df = input
    /\ normalized_features = scaled
    /\ optimize_clusters = FALSE
    /\ k_range = [start |-> DefaultKStart, stop |-> DefaultKStop]
    /\ pc = "similarity"
    /\ status = "running"
    /\ embeddings = <<>>
    /\ optimization_results = NoOptimization
    /\ cluster_labels = <<>>
    /\ kmeans = 0
    /\ sil_score = 0
    /\ row = 1
    /\ edges = EmptyBag
    /\ stats = NoStats
    /\ files = [f \in FileNames |-> "prior"]
    /\ written = NoArtifacts
    /\ ProgramsIdle

NextSim == CalculateSimilaritiesRow \/ CalculateSimilaritiesReturn

SpecSim == InitSim /\ [][NextSim]_vars

\* The edge list has been returned.
Returned == pc = "write_tracks"

EdgeSet == BagToSet(edges)

\* Number of edges of the list whose source is track id s
OutDegree(s) ==
    LET from == {e \in EdgeSet : e.source = s}
        RECURSIVE Sum(_)
        Sum(S) == IF S = {} THEN 0
                  ELSE LET e == CHOOSE x \in S : TRUE
                       IN  CopiesIn(e, edges) + Sum(S \ {e})
    IN  Sum(from)

\* Target indices of the edges emitted for source index i (track ids are the
\* record indices in every input drawn here)
Emitted(i) == {e.target : e \in {x \in EdgeSet : x.source = i}}

\* The top_n highest-similarity other tracks of source i: every set of
\* min(top_n, n - 1) other indices that no other outside index beats
TopOthers(i) ==
    LET similarities == SimilarityMatrix(normalized_features)[i]
        others == (1..Len(df)) \ {i}
    IN  {T \in SUBSET others :
            /\ Cardinality(T) = Min(Max(top_n_similar, 0), Cardinality(others))
            /\ \A a \in T : \A b \in others \ T : similarities[a] >= similarities[b]}

\* C1 (as claimed): after calculate_similarities every source track id has
\* at most top_n_similar edges in the returned edge list.
C1_AtMostTopN ==
    Returned => \A i \in 1..Len(df) : OutDegree(df[i].track_id) <= top_n_similar

\* C2 (as claimed): no edge of the list has its source equal to its target.
C2_NoSelfEdge == \A e \in EdgeSet : e.source # e.target

\* C3 (as claimed): every edge's similarity is strictly greater than the
\* threshold and at most 1.
C3_StrictlyAboveThreshold ==
    \A e \in EdgeSet :
        e.similarity > similarity_threshold /\ e.similarity <= SimScale

\* C3 (amended): every edge's similarity is at least the threshold and at
\* most 1; a candidate whose similarity equals the threshold is emitted.
C3_AtLeastThreshold ==
    \A e \in EdgeSet :
        e.similarity >= similarity_threshold /\ e.similarity <= SimScale

\* An edge between two different tracks whose similarity equals the threshold
C3_Witness ==
    /\ Returned
    /\ \E e \in EdgeSet : e.source # e.target /\ e.similarity = similarity_threshold

\* C4 (as claimed): for each source, the emitted targets are exactly the
\* members of a top_n selection among the other tracks that pass the
\* threshold (truncation before filtering), and no other track that is not
\* emitted has a similarity strictly greater than an emitted target's.
C4_TopNThenThreshold ==
    Returned =>
        \A i \in 1..Len(df) :
            LET similarities == SimilarityMatrix(normalized_features)[i]
            IN  /\ \E T \in TopOthers(i) :
                      Emitted(i) = {j \in T : similarities[j] >= similarity_threshold}
                /\ \A j \in (1..Len(df)) \ (Emitted(i) \cup {i}) :
                      \A t \in Emitted(i) : similarities[j] <= similarities[t]

\* The similarity row i of the matrix ranks, with the diagonal at 0
Ranked(i, j) ==
    IF i = j THEN 0
    ELSE CosineSimilarity(normalized_features[i], normalized_features[j])

\* The edge a -> b is in the list and b -> a is not.
OneWay(a, b) ==
    /\ a # b
    /\ \E e \in EdgeSet : e.source = a /\ e.target = b
    /\ ~\E e \in EdgeSet : e.source = b /\ e.target = a

\* C21: symmetry of the edge set is not guaranteed.  An edge a -> b without
\* b -> a comes about in one way only: top_n is positive and b's row holds
\* at least top_n entries other than a that rank no lower than a, so a can
\* fall outside b's top_n although b is within a's.  (Reachability of such
\* an edge list is C21_Witness.)
C21_OneWayOnlyByTruncation ==
    Returned =>
        \A a, b \in 1..Len(df) :
            OneWay(a, b) =>
                /\ top_n_similar > 0
                /\ Cardinality({j \in (1..Len(df)) \ {a} : Ranked(b, j) >= Ranked(b, a)})
                      >= top_n_similar

\* A returned edge list with an edge a -> b and no edge b -> a, for a
\* positive top_n and a threshold within (0, 1]
C21_Witness ==
    /\ Returned
    /\ top_n_similar > 0
    /\ similarity_threshold > 0
    /\ similarity_threshold <= SimScale
    /\ \E a, b \in 1..Len(df) : OneWay(a, b)

-----------------------------------------------------------------------------
(* Properties of process(), checked under Spec *)

\* The records load_data retains from the input file
Retained == SelectSeq(input, LAMBDA r : r.complete)

ThisRun(tag) == tag \in {"current", "torn"}

\* C5 (as claimed): at every moment a reader of the output directory finds
\* either all four files of the run in progress (or last started), or none
\* of that run's files.
C5_AllOrNothing ==
    \/ \A f \in FileNames : files[f] = "current"
    \/ \A f \in FileNames : ~ThisRun(files[f])

\* The configurations the specification calls invalid: cluster count k >=
\* the number of retained records, an empty or inverted k-range, a candidate
\* k >= the number of retained records, top_n <= 0, threshold outside [0, 1]
InvalidConfig ==
    \/ top_n_similar <= 0
    \/ similarity_threshold < 0
    \/ similarity_threshold > SimScale
    \/ ~optimize_clusters /\ n_clusters >= Len(Retained)
    \/ optimize_clusters /\ k_range.stop <= k_range.start
    \/ optimize_clusters /\ \E k \in RangeSet(k_range) : k >= Len(Retained)

NoStageExecuted ==
    /\ normalized_features = <<>>
    /\ embeddings = <<>>
    /\ ~optimization_results.present
    /\ kmeans = 0
    /\ row = 1
    /\ edges = EmptyBag

\* C6 (as claimed): a run whose configuration is invalid never executes a
\* pipeline stage, writes no artifact and does not complete.
C6_InvalidConfigRejectedFirst ==
    (status # "idle" /\ InvalidConfig) =>
        /\ NoStageExecuted
        /\ \A f \in FileNames : ~ThisRun(files[f])
        /\ status # "done"

\* The k-range of an optimize-mode run is empty or holds a k larger than the
\* number of retained records.
BadSweepRange ==
    /\ status # "idle"
    /\ optimize_clusters
    /\ \/ k_range.stop <= k_range.start
       \/ \E k \in RangeSet(k_range) : k > Len(Retained)

\* C7: in optimize mode, if the candidate range is empty or holds a k larger
\* than the number of retained records, the run never gets past the sweep:
\* no selected k is returned, clustering never runs with one, no statistics
\* are produced and the run does not complete (it ends in the error raised).
C7_BadSweepRangeIsAnError ==
    BadSweepRange =>
        /\ ~optimization_results.present
        /\ kmeans = 0
        /\ ~stats.present
        /\ Rank(pc) <= Rank("select")
        /\ status # "done"

\* A run failed in the sweep on a range that holds a k larger than the
\* number of retained records (here: a non-empty range).
C7_Witness ==
    /\ status = "failed"
    /\ pc = "select"
    /\ optimize_clusters
    /\ k_range.stop > k_range.start
    /\ \E k \in RangeSet(k_range) : k > Len(df)

\* C8: the optimal_k find_optimal_clusters returns is a candidate of the
\* range whose recorded score is optimal_score, no candidate scores higher,
\* and every other candidate with the same score is a larger k.
C8_MaxScoreSmallestK ==
    optimization_results.present =>
        LET r == optimization_results
            idx == 1..Len(r.all_k_values)
        IN  /\ r.all_k_values = KValues(k_range)
            /\ Len(r.all_scores) = Len(r.all_k_values)
            /\ \E x \in idx : r.all_k_values[x] = r.optimal_k
                              /\ r.all_scores[x] = r.optimal_score
            /\ \A x \in idx : r.all_scores[x] <= r.optimal_score
            /\ \A x \in idx :
                  (r.all_scores[x] = r.optimal_score /\ r.all_k_values[x] # r.optimal_k)
                      => r.all_k_values[x] > r.optimal_k

\* A sweep in which two candidates tie for the maximum
C8_Witness ==
    /\ optimization_results.present
    /\ \E x, y \in 1..Len(optimization_results.all_scores) :
          /\ x # y
          /\ optimization_results.all_scores[x] = optimization_results.optimal_score
          /\ optimization_results.all_scores[y] = optimization_results.optimal_score

\* C9: clustering runs with self.n_clusters, which a run that skips the
\* selection never modifies and a run that selects has set to optimal_k, and
\* the statistics report the count clustering used.
C9_ClusteringUsesConfiguredOrSelectedK ==
    /\ [](/\ kmeans # 0 => kmeans = n_clusters
          /\ (kmeans # 0 /\ optimization_results.present)
                => kmeans = optimization_results.optimal_k
          /\ stats.present => (kmeans # 0 /\ stats.n_clusters = kmeans))
    /\ [][~optimize_clusters' => n_clusters' = n_clusters]_vars

\* A completed run that skipped the selection and reports the count it
\* clustered with
C9_Witness ==
    /\ status = "done"
    /\ ~optimize_clusters
    /\ ~optimization_results.present
    /\ kmeans = n_clusters
    /\ stats.present
    /\ stats.n_clusters = n_clusters
    /\ ~stats.optimization.optimized

\* C10 (as claimed): process() leaves the processor's configuration
\* (n_clusters, n_neighbors, min_dist, similarity_threshold, top_n_similar)
\* unchanged.
C10_ConfigurationUnchanged == [][config' = config]_vars

-----------------------------------------------------------------------------
(* Loading: which records reach normalization, and what is reported *)

\* The number of records load_data excluded
Dropped == Len(input) - Len(df)

Loaded == status # "idle" /\ Rank(pc) > Rank("load")

\* The fields lines 300-324 put into the statistics, each with a meaning of
\* its own (total_tracks is the number of retained records)
OtherStatistics ==
    {"present", "total_tracks", "n_clusters", "silhouette_score", "total_edges",
     "avg_edges_per_track", "umap_params", "similarity_threshold", "top_n_similar",
     "optimization"}

\* C12 (as claimed): load_data excludes every record lacking a feature value
\* and keeps every complete record, and the statistics process() writes hold
\* a dropped-record count equal to the number of excluded records.
C12_DroppedCountReported ==
    /\ Loaded =>
          /\ \A i \in 1..Len(df) : df[i].complete
          /\ \A i \in 1..Len(input) :
                input[i].complete => \E j \in 1..Len(df) : df[j] = input[i]
    /\ stats.present =>
          \E key \in (DOMAIN stats) \ OtherStatistics : stats[key] = Dropped

\* The input file holds no record, or none with all feature values.
NoRecordRemains == status # "idle" /\ Len(Retained) = 0

\* C13: when no record remains after dropping, process() ends in an error
\* (KeyError at line 55 for a file whose frame lacks a feature column,
\* ValueError from StandardScaler for a frame of 0 rows): nothing is
\* normalized, embedded, clustered or compared, no artifact is written, the
\* run does not complete, and the only steps such a run takes are the return
\* of load_data and the raise.
C13_NothingRemainsAborts ==
    /\ [](NoRecordRemains =>
            /\ NoStageExecuted
            /\ Rank(pc) <= Rank("normalize")
            /\ \A f \in FileNames : ~ThisRun(files[f]) /\ ~written[f].present
            /\ ~stats.present
            /\ status # "done")
    /\ [][(NoRecordRemains /\ status = "running") =>
              \/ status' = "failed"
              \/ pc = "load" /\ pc' = "normalize" /\ df' = <<>>]_vars

\* A run over a file whose records all lack a feature value has failed in
\* normalize_features, on the empty frame load_data returned.
C13_Witness ==
    /\ status = "failed"
    /\ pc = "normalize"
    /\ Len(input) >= 1
    /\ \A i \in 1..Len(input) : ~input[i].complete
    /\ df = <<>>
    /\ normalized_features = <<>>

\* C14 (as claimed): every record handed to normalize_features has all nine
\* feature values present and numeric; load_data has excluded the records
\* with a missing or a non-numeric value.
C14_OnlyCompleteNumericRecordsNormalized ==
    Loaded => \A i \in 1..Len(df) : df[i].complete /\ df[i].numeric

-----------------------------------------------------------------------------
(* The outputs of a completed run *)

TracksWritten == written["tracks_with_clusters.json"].content

EdgesWritten == written["neo4j_edges.json"].content

StatsWritten == written["processing_stats.json"].content

\* C15: after a successful process() the tracks artifact holds every
\* retained record once, each with one cluster_id, an integer in [0, k) for
\* the k the statistics report, and when k is at most the number of distinct
\* feature vectors every value of [0, k) is the cluster_id of some track.
C15_ClusterIdsCoverRange ==
    status = "done" =>
        LET k == StatsWritten.n_clusters
        IN  /\ Len(TracksWritten) = Len(Retained)
            /\ \A i \in 1..Len(Retained) :
                  /\ TracksWritten[i].track_id = Retained[i].track_id
                  /\ TracksWritten[i].cluster_id \in 0..(k - 1)
            /\ k <= Distinct(normalized_features) =>
                  \A c \in 0..(k - 1) :
                      \E i \in 1..Len(TracksWritten) : TracksWritten[i].cluster_id = c

\* A completed run with as many clusters as there are distinct feature
\* vectors, fewer than there are tracks
C15_Witness ==
    /\ status = "done"
    /\ StatsWritten.n_clusters = Distinct(normalized_features)
    /\ Len(TracksWritten) > StatsWritten.n_clusters
    /\ \A c \in 0..(StatsWritten.n_clusters - 1) :
          \E i \in 1..Len(TracksWritten) : TracksWritten[i].cluster_id = c

\* C17: when the threshold exceeds every attainable similarity (above 1.0),
\* no edge is ever appended, the run does not fail in calculate_similarities,
\* the edge artifact is an empty list, and the statistics report 0 edges in
\* total and 0 edges per track on average.
C17_ThresholdAboveOneNoEdges ==
    similarity_threshold > SimScale =>
        /\ edges = EmptyBag
        /\ status = "failed" => pc # "similarity"
        /\ written["neo4j_edges.json"].present => EdgesWritten = EmptyBag
        /\ stats.present =>
              /\ stats.total_edges = 0
              /\ stats.avg_edges_per_track.num = 0
              /\ stats.avg_edges_per_track.den > 0

\* A completed run with a threshold above 1.0, a positive top_n and two
\* tracks of similarity 1.0
C17_Witness ==
    /\ status = "done"
    /\ similarity_threshold > SimScale
    /\ top_n_similar > 0
    /\ \E i, j \in 1..Len(df) :
          i # j /\ SimilarityMatrix(normalized_features)[i][j] = SimScale
    /\ written["neo4j_edges.json"].present
    /\ StatsWritten.total_edges = 0

\* The stage process() enters after stage s
Following(s) ==
    IF s = "umap" /\ ~optimize_clusters THEN "cluster" ELSE Stages[Rank(s) + 1]

\* C19: the stages run in the order load, normalize, embed, selection (when
\* requested), cluster, similarity, write.  A stage has output only if the
\* stage before it has produced its whole output, no artifact is written
\* before clustering and similarity have both completed, and every step of a
\* run stays in its stage or enters the following one.
C19_StagesInOrder ==
    /\ [](/\ normalized_features # <<>> =>
                Loaded /\ Len(normalized_features) = Len(df)
          /\ embeddings # <<>> => Len(embeddings) = Len(normalized_features)
          /\ optimization_results.present => optimize_clusters /\ embeddings # <<>>
          /\ kmeans # 0 =>
                /\ embeddings # <<>>
                /\ Len(cluster_labels) = Len(df)
                /\ optimize_clusters => optimization_results.present
          /\ (row > 1 \/ edges # EmptyBag) => kmeans # 0
          /\ status # "idle" =>
                \A f \in FileNames :
                    (ThisRun(files[f]) \/ written[f].present) =>
                        kmeans # 0 /\ row > Len(df)
          /\ stats.present => \A f \in FileNames \ {"processing_stats.json"} :
                                  written[f].present)
    /\ [][(status = "running" /\ pc' # pc) =>
              status' # "failed" /\ pc' = Following(pc)]_vars

\* A completed run that selected the cluster count: every stage has run
\* and every artifact is written.
C19_Witness ==
    /\ status = "done"
    /\ optimize_clusters
    /\ optimization_results.present
    /\ kmeans # 0
    /\ row > Len(df)
    /\ \A f \in FileNames : written[f].present

\* The selection stage ran in this call.
SelectionRan == optimization_results.present

\* C20: the written statistics agree with the written artifacts: total_tracks
\* is the number of records of the tracks artifact, total_edges the number
\* of edges of the edge artifact, avg_edges_per_track their quotient,
\* n_clusters the k clustering used, and a selection score (optimal_score)
\* is recorded exactly when the selection ran, then the score it returned.
C20_StatisticsMatchArtifacts ==
    written["processing_stats.json"].present =>
        LET s == StatsWritten
        IN  /\ s = stats
            /\ s.total_tracks = Len(TracksWritten)
            /\ s.total_tracks = Len(written["neo4j_nodes.json"].content)
            /\ s.total_edges = BagCardinality(EdgesWritten)
            /\ s.avg_edges_per_track = Ratio(s.total_edges, s.total_tracks)
            /\ s.total_tracks > 0
            /\ s.n_clusters = kmeans
            /\ "optimal_score" \in DOMAIN s.optimization <=> SelectionRan
            /\ s.optimization.optimized <=> SelectionRan
            /\ SelectionRan <=> optimize_clusters
            /\ SelectionRan =>
                  /\ s.optimization.optimal_score = optimization_results.optimal_score
                  /\ s.optimization.optimal_k = s.n_clusters

\* A completed run that dropped a record, selected the cluster count and
\* produced edges
C20_Witness ==
    /\ status = "done"
    /\ written["processing_stats.json"].present
    /\ Len(input) > Len(df)
    /\ SelectionRan
    /\ "optimal_score" \in DOMAIN StatsWritten.optimization
    /\ StatsWritten.total_edges > 0

-----------------------------------------------------------------------------
(* SpecEmb: processors that differ in the embedding parameters n_neighbors   *)
(* and min_dist, with the cluster count, the threshold and top_n fixed       *)

\* (n_neighbors, min_dist) as given with --neighbors and --min-dist: the
\* defaults, and 5 with 0.5
UmapParams == {<<DefaultNNeighbors, DefaultMinDist>>, <<5, 5>>}

InitEmb ==
    /\ n_clusters = 2
    /\ \E p \in UmapParams : n_neighbors = p[1] /\ min_dist = p[2]
    /\ similarity_threshold = SimScale
    /\ top_n_similar = MaxTopN
    /\ \E c \in Catalogs :
          /\ input = [i \in DOMAIN c |-> Record(i, i, RowKinds[c[i]])]
          /\ scaled = [i \in DOMAIN c |-> RowKinds[c[i]].z]
    /\ optimize_clusters = FALSE
    /\ k_range = DefaultKRange
    /\ pc = "load"
    /\ status = "idle"
    /\ df = <<>>
    /\ normalized_features = <<>>
    /\ embeddings = <<>>
    /\ optimization_results = NoOptimization
    /\ cluster_labels = <<>>
    /\ kmeans = 0
    /\ sil_score = 0
    /\ row = 1
    /\ edges = EmptyBag
    /\ stats = NoStats
    /\ files = [f \in FileNames |-> "prior"]
    /\ written = NoArtifacts
    /\ ProgramsIdle

\* One call of process() on each processor
NextEmb ==
    \/ Process
    \/ LoadData
    \/ NormalizeFeatures
    \/ PerformUmap
    \/ FindOptimalClusters
    \/ PerformClustering
    \/ CalculateSimilaritiesRow
    \/ CalculateSimilaritiesReturn
    \/ WriteTracks
    \/ WriteNodes
    \/ WriteEdges
    \/ WriteStats

SpecEmb == InitEmb /\ [][NextEmb]_vars

\* The edges of the list whose source is the track of row i
EdgesFrom(i) == {e \in EdgeSet : e.source = df[i].track_id}

\* The edge sets calculate_similarities can append for row i of a feature
\* matrix: one per ranking argsort can return
RowEdgeSets(features, i) ==
    LET similarities == SimilarityMatrix(features)[i]
    IN  {BagToSet(RowEdges(TrackIds(df), similarities, i, T, similarity_threshold)) :
            T \in TopSets(similarities, TopCount(Len(similarities), top_n_similar))}

\* C18: the cluster labels and the edges are determined by the normalized
\* matrix (with k, the threshold and top_n), whatever n_neighbors and
\* min_dist are and whatever embedding UMAP returned: the labels are those
\* of KMeans on the normalized matrix, every row's edges are edges of the
\* cosine similarities of the normalized matrix, and the artifacts hold
\* these labels and edges.
C18_OutputsFromNormalizedMatrixOnly ==
    /\ kmeans # 0 =>
          /\ ~KMeansRaises(normalized_features, kmeans)
          /\ ~SilhouetteRaises(normalized_features, kmeans)
          /\ cluster_labels = KMeansLabels(normalized_features, kmeans)
    /\ status # "idle" =>
          \A i \in 1..Len(df) :
              IF i < row THEN EdgesFrom(i) \in RowEdgeSets(normalized_features, i)
              ELSE EdgesFrom(i) = {}
    /\ written["tracks_with_clusters.json"].present =>
          [i \in 1..Len(df) |-> TracksWritten[i].cluster_id] = cluster_labels
    /\ written["neo4j_edges.json"].present => EdgesWritten = edges

\* A completed run of a processor with other than the default embedding
\* parameters, over tracks of which two have the same normalized features,
\* with at least one edge
C18_Witness ==
    /\ status = "done"
    /\ n_neighbors # DefaultNNeighbors
    /\ min_dist # DefaultMinDist
    /\ embeddings = Umap(normalized_features, n_neighbors, min_dist)
    /\ Distinct(normalized_features) < Len(normalized_features)
    /\ cluster_labels = KMeansLabels(normalized_features, kmeans)
    /\ edges # EmptyBag

-----------------------------------------------------------------------------
(* SpecSimIds: calculate_similarities on the track ids process() passes,     *)
(* df['track_id'].tolist() (line 276).  load_data keeps the track_id of each *)
(* record as the file gives it, so two rows may carry the same id.  The      *)
(* threshold lies in (0, 1] and top_n is positive.                           *)

\* The id lists of n rows, up to renaming: the first row has id 1 and every
\* row has an id already seen or the next unused one.
IdLists(n) ==
    {ids \in [1..n -> 1..n] :
        \A i \in 1..n : \/ ids[i] = 1
                         \/ \E j \in 1..(i - 1) : ids[j] \in {ids[i], ids[i] - 1}}

InitSimIds ==
    /\ n_clusters = 2
    /\ n_neighbors = DefaultNNeighbors
    /\ min_dist = DefaultMinDist
    /\ similarity_threshold \in {t \in Thresholds : 0 < t /\ t <= SimScale}
    /\ top_n_similar \in TopNs \ {0}
    /\ \E n \in 2..MaxSimTracks :
          /\ \E ids \in IdLists(n) :
                input = [i \in 1..n |-> Record(i, ids[i], RowKinds[1])]
          /\ scaled \in [1..n -> Vecs]
    /\ df = input
    /\ normalized_features = scaled
    /\ optimize_clusters = FALSE
    /\ k_range = DefaultKRange
    /\ pc = "similarity"
    /\ status = "running"
    /\ embeddings = <<>>
    /\ optimization_results = NoOptimization
    /\ cluster_labels = <<>>
    /\ kmeans = 0
    /\ sil_score = 0
    /\ row = 1
    /\ edges = EmptyBag
    /\ stats = NoStats
    /\ files = [f \in FileNames |-> "prior"]
    /\ written = NoArtifacts
    /\ ProgramsIdle

SpecSimIds == InitSimIds /\ [][NextSim]_vars

\* C16 (as claimed): the edge list holds no two edges with the same
\* (source, target) pair, whatever track list process() passes.
C16_NoDuplicatePair ==
    /\ \A e \in EdgeSet : CopiesIn(e, edges) = 1
    /\ \A e1, e2 \in EdgeSet :
          (e1.source = e2.source /\ e1.target = e2.target) => e1 = e2

-----------------------------------------------------------------------------
(* The API server: api/app.py, api/routes/*.py, api/database/*.py            *)
(*                                                                           *)
(* The two database clients are constructed when app.py is imported; the     *)
(* server then handles one request after another.  A request is received     *)
(* (Receive) and then handled by the handler of its route, which sets the    *)
(* response.  Whether each database server answers is drawn anew with every  *)
(* request.  pymongo, the neo4j driver and Flask are not part of the         *)
(* repository; what the handlers observe of them is modelled.                *)

\* The pipeline is not part of the run
PipelineIdle ==
    /\ n_clusters = 2
    /\ n_neighbors = DefaultNNeighbors
    /\ min_dist = DefaultMinDist
    /\ similarity_threshold = SimScale
    /\ top_n_similar = 0
    /\ input = <<>>
    /\ scaled = <<>>
    /\ optimize_clusters = FALSE
    /\ k_range = DefaultKRange
    /\ pc = "load"
    /\ status = "idle"
    /\ df = <<>>
    /\ normalized_features = <<>>
    /\ embeddings = <<>>
    /\ optimization_results = NoOptimization
    /\ cluster_labels = <<>>
    /\ kmeans = 0
    /\ sil_score = 0
    /\ row = 1
    /\ edges = EmptyBag
    /\ stats = NoStats
    /\ files = [f \in FileNames |-> "prior"]
    /\ written = NoArtifacts

ServerStates == {"up", "down"}

\* mongo_client.py 26-43: MongoDBClient._initialize.  MongoClient(...) does
\* not connect; the ping does, and raises ServerSelectionTimeoutError when
\* the server does not answer: _client is then set to None, while _db and
\* _collection keep the handles made from the MongoClient.
InitializeMongo ==
    /\ _client = "unset"
    /\ _client' = IF mongo_server = "up" THEN "MongoClient" ELSE "None"
    /\ UNCHANGED <<pipeline, classes, scripts, mongo_server, neo4j_server, _driver, collection, graph,
                   request, response, queried>>

\* neo4j_client.py 24-41: Neo4jClient._initialize.  The test session raises
\* ServiceUnavailable when the server does not answer: _driver is set to None.
InitializeNeo4j ==
    /\ _client # "unset"
    /\ _driver = "unset"
    /\ _driver' = IF neo4j_server = "up" THEN "Driver" ELSE "None"
    /\ UNCHANGED <<pipeline, classes, scripts, mongo_server, neo4j_server, _client, collection, graph,
                   request, response, queried>>

\* mongo_client.py 45-53: MongoDBClient.check_connection
MongoCheckConnection ==
    IF _client = "None" THEN FALSE ELSE mongo_server = "up"

\* neo4j_client.py 43-52: Neo4jClient.check_connection
Neo4jCheckConnection ==
    IF _driver = "None" THEN FALSE ELSE neo4j_server = "up"

\* 'healthy' when either check succeeds
HealthStatus_Either(mongo_status, neo4j_status) ==
    IF mongo_status \/ neo4j_status THEN "healthy" ELSE "degraded"

\* app.py 62: 'healthy' if (mongo_status and neo4j_status) else 'degraded'
HealthStatus(mongo_status, neo4j_status) ==
    IF mongo_status /\ neo4j_status THEN "healthy" ELSE "degraded"

\* app.py 64-65: 'connected' if ... else 'disconnected'
ConnectionText(ok) == IF ok THEN "connected" ELSE "disconnected"

\* app.py 56-68: health()
Health ==
    /\ request.route = "health"
    /\ response = NoResponse
    /\ LET mongo_status == MongoCheckConnection
           neo4j_status == Neo4jCheckConnection
       IN  response' =
             [status |-> 200,
              body |-> [status |-> HealthStatus(mongo_status, neo4j_status),
                        databases |-> [mongodb |-> ConnectionText(mongo_status),
                                       neo4j |-> ConnectionText(neo4j_status)]]]
    /\ queried' = <<"mongo.check_connection", "neo4j.check_connection">>
    /\ UNCHANGED <<pipeline, classes, scripts, mongo_server, neo4j_server, _client, _driver, collection,
                   graph, request>>

\* Track ids 1..MaxNodes occur in the collection and in the graph
MaxNodes == 3

\* Audio features of three kinds of track: values in hundredths, tempo in
\* BPM, loudness in dB
Profiles ==
    << [energy |-> 90, danceability |-> 80, valence |-> 95, tempo |-> 160,
        acousticness |-> 10, instrumentalness |-> 0, liveness |-> 20,
        speechiness |-> 5, loudness |-> -5],
       [energy |-> 30, danceability |-> 40, valence |-> 35, tempo |-> 90,
        acousticness |-> 60, instrumentalness |-> 50, liveness |-> 10,
        speechiness |-> 5, loudness |-> -12],
       [energy |-> 60, danceability |-> 50, valence |-> 50, tempo |-> 110,
        acousticness |-> 20, instrumentalness |-> 10, liveness |-> 10,
        speechiness |-> 5, loudness |-> -8] >>

\* The document of track i as load_mongo.py inserts it, with MongoDB's _id
Doc(i) ==
    [f \in {"_id", "track_id", "cluster_id"} |->
        IF f = "cluster_id" THEN i % 2 ELSE i]
    @@ Profiles[((i - 1) % Len(Profiles)) + 1]

\* The collections: the documents of the tracks 1..n
Collections == {[i \in 1..n |-> Doc(i)] : n \in 0..MaxNodes}

\* mongo_client.py 101-103: feature_names
FeatureNames ==
    {"energy", "danceability", "valence", "tempo", "acousticness",
     "instrumentalness", "liveness", "speechiness", "loudness"}

\* mongo_client.py 106: f"{feature}_min"
MinKey ==
    [energy |-> "energy_min", danceability |-> "danceability_min",
     valence |-> "valence_min", tempo |-> "tempo_min",
     acousticness |-> "acousticness_min",
     instrumentalness |-> "instrumentalness_min", liveness |-> "liveness_min",
     speechiness |-> "speechiness_min", loudness |-> "loudness_min"]

\* mongo_client.py 107: f"{feature}_max"
MaxKey ==
    [energy |-> "energy_max", danceability |-> "danceability_max",
     valence |-> "valence_max", tempo |-> "tempo_max",
     acousticness |-> "acousticness_max",
     instrumentalness |-> "instrumentalness_max", liveness |-> "liveness_max",
     speechiness |-> "speechiness_max", loudness |-> "loudness_max"]

\* JSON values: null, objects (functions from keys to numbers), arrays and
\* numbers
Null == [type |-> "null"]

Object(fields) == [type |-> "object", value |-> fields]

\* Python truth of a decoded JSON value (search.py 31: if not filters)
Truthy(v) ==
    CASE v.type = "null" -> FALSE
      [] v.type = "object" -> DOMAIN v.value # {}
      [] v.type = "array" -> Len(v.value) > 0
      [] v.type = "number" -> v.value # 0

\* mongo_client.py 109 and 117: `key in filters` raises TypeError when
\* filters is a number; on an array it is a test for an item equal to key
ContainerType(v) == v.type \in {"object", "array"}

HasKey(v, key) == v.type = "object" /\ key \in DOMAIN v.value

\* mongo_client.py 98-118: the range query built from the filters, as a set
\* of conditions
BuildQuery(filters) ==
    {[field |-> f, op |-> "$gte", value |-> filters.value[MinKey[f]]] :
        f \in {g \in FeatureNames : HasKey(filters, MinKey[g])}}
    \cup
    {[field |-> f, op |-> "$lte", value |-> filters.value[MaxKey[f]]] :
        f \in {g \in FeatureNames : HasKey(filters, MaxKey[g])}}
    \cup
    (IF HasKey(filters, "cluster_id")
     THEN {[field |-> "cluster_id", op |-> "$eq",
            value |-> filters.value["cluster_id"]]}
     ELSE {})

\* MongoDB's matching of a document against the conditions
Matches(doc, query) ==
    \A c \in query :
        /\ c.field \in DOMAIN doc
        /\ CASE c.op = "$gte" -> doc[c.field] >= c.value
             [] c.op = "$lte" -> doc[c.field] <= c.value
             [] c.op = "$eq" -> doc[c.field] = c.value

\* cursor.limit(n)
Limit(docs, n) == SubSeq(docs, 1, Min(n, Len(docs)))

\* mongo_client.py 120-125: find(query).limit(100) through _collection; an
\* exception of the driver is caught and [] returned.  The handle reaches
\* the server whenever the server answers, whatever _client is.
FindTracks(query) ==
    IF mongo_server = "up"
    THEN Limit(SelectSeq(collection, LAMBDA d : Matches(d, query)), 100)
    ELSE <<>>

\* mongo_client.py 87-125: search_by_features
SearchByFeatures(filters) ==
    IF ContainerType(filters)
    THEN [raised |-> FALSE, results |-> FindTracks(BuildQuery(filters)),
          ops |-> <<"tracks.find">>]
    ELSE [raised |-> TRUE, results |-> <<>>, ops |-> <<>>]

\* search.py 44-46, 88-90: del track['_id']
StripId(doc) == [f \in (DOMAIN doc) \ {"_id"} |-> doc[f]]

StripIds(docs) == [i \in DOMAIN docs |-> StripId(docs[i])]

\* The bodies of POST /api/search: none (and no JSON content type), a JSON
\* content type with a body that is not JSON (empty, say), or a JSON value
JsonValues ==
    {Null, Object(<<>>), [type |-> "array", value |-> <<>>],
     [type |-> "number", value |-> 0],
     Object([energy_min |-> 70]),
     Object([energy_min |-> 20, energy_max |-> 40, cluster_id |-> 0]),
     Object([tempo_min |-> 200]),
     [type |-> "array", value |-> <<1>>], [type |-> "number", value |-> 5]}

Bodies ==
    {[kind |-> "absent"], [kind |-> "unparseable"]}
    \cup {[kind |-> "json", value |-> v] : v \in JsonValues}

\* request.get_json() (search.py 29).  A body that is not JSON under a JSON
\* content type raises BadRequest.  Without a JSON content type Flask
\* returns None up to 2.0 and raises UnsupportedMediaType from 2.1 on; the
\* repository pins no version.
GetJson(body) ==
    CASE body.kind = "json" -> {[raised |-> FALSE, value |-> body.value]}
      [] body.kind = "unparseable" -> {[raised |-> TRUE, value |-> Null]}
      [] body.kind = "absent" -> {[raised |-> FALSE, value |-> Null],
                                  [raised |-> TRUE, value |-> Null]}

\* search.py 13-58: search_tracks()
SearchTracks ==
    /\ request.route = "search"
    /\ response = NoResponse
    /\ \E j \in GetJson(request.body) :
          IF j.raised
          THEN /\ response' = [status |-> 500, body |-> [error |-> "Search failed"]]
               /\ queried' = <<>>
          ELSE IF ~Truthy(j.value)
          THEN /\ response' = [status |-> 400,
                               body |-> [error |-> "No search filters provided",
                                         example |-> "filters"]]
               /\ queried' = <<>>
          ELSE LET r == SearchByFeatures(j.value)
               IN  /\ response' =
                        IF r.raised
                        THEN [status |-> 500, body |-> [error |-> "Search failed"]]
                        ELSE [status |-> 200,
                              body |-> [count |-> Len(r.results),
                                        filters |-> j.value,
                                        results |-> StripIds(r.results)]]
                   /\ queried' = r.ops
    /\ UNCHANGED <<pipeline, classes, scripts, mongo_server, neo4j_server, _client, _driver, collection,
                   graph, request>>

\* mongo_client.py 182-210: mood_profiles
MoodProfiles ==
    [happy |-> [valence_min |-> 90, energy_min |-> 70],
     energetic |-> [energy_min |-> 70, tempo_min |-> 150],
     calm |-> [energy_max |-> 40, valence_min |-> 30, acousticness_min |-> 40],
     sad |-> [valence_max |-> 40, energy_max |-> 50],
     workout |-> [energy_min |-> 80, danceability_min |-> 60, tempo_min |-> 120],
     chill |-> [energy_max |-> 50, acousticness_min |-> 30,
                instrumentalness_min |-> 30]]

\* str.lower() on the strings of the model
Lower(str) ==
    CASE str = "Happy" -> "happy"
      [] str = "SAD" -> "sad"
      [] str = "Song" -> "song"
      [] str = "Other" -> "other"
      [] str = "A" -> "a"
      [] OTHER -> str

\* request.args.get(key, default)
ArgsGet(args, key, default) == IF key \in DOMAIN args THEN args[key] ELSE default

\* mongo_client.py 172-216: search_by_mood
SearchByMood(mood) ==
    LET filters == IF Lower(mood) \in DOMAIN MoodProfiles
                   THEN MoodProfiles[Lower(mood)] ELSE <<>>
    IN  IF DOMAIN filters = {}
        THEN [raised |-> FALSE, results |-> <<>>, ops |-> <<>>]
        ELSE SearchByFeatures(Object(filters))

\* search.py 61-102: search_by_mood()
SearchMood ==
    /\ request.route = "mood"
    /\ response = NoResponse
    /\ LET mood == Lower(ArgsGet(request.args, "mood", ""))
           r == SearchByMood(mood)
       IN  IF mood = ""
           THEN /\ response' = [status |-> 400,
                                body |-> [error |-> "Mood parameter required"]]
                /\ queried' = <<>>
           ELSE /\ response' =
                     IF r.results = <<>>
                     THEN [status |-> 400,
                           body |-> [error |-> "Invalid mood", mood |-> mood]]
                     ELSE [status |-> 200,
                           body |-> [mood |-> mood, count |-> Len(r.results),
                                     results |-> StripIds(r.results)]]
                /\ queried' = r.ops
    /\ UNCHANGED <<pipeline, classes, scripts, mongo_server, neo4j_server, _client, _driver, collection,
                   graph, request>>

\* The values of the mood parameter: the six moods, two of them in other
\* case, an unknown mood and the empty string
MoodArgs ==
    {"happy", "energetic", "calm", "sad", "workout", "chill", "Happy", "SAD",
     "angry", ""}

\* A SIMILAR_TO relationship; similarity in hundredths
Rel(a, b, sim) == [source |-> a, target |-> b, similarity |-> sim]

\* The graphs: none, a chain, two routes from track 1 to track 2, and a
\* pair of mutual neighbours
Graphs ==
    {{},
     {Rel(1, 2, 80), Rel(2, 3, 65)},
     {Rel(1, 2, 80), Rel(1, 3, 65), Rel(3, 2, 65)},
     {Rel(1, 2, 80), Rel(2, 1, 80), Rel(2, 3, 65)}}

\* Largest value of hops the handler lets through (recommendations.py 32)
MaxHops == 3

\* The paths (source)-[:SIMILAR_TO*n]->() from the Track node of track_id:
\* n relationships in a row, none of them twice
RECURSIVE PathsOfLength(_, _)
PathsOfLength(track_id, n) ==
    IF n = 1
    THEN {<<r>> : r \in {q \in graph : q.source = track_id}}
    ELSE {Append(pr[1], pr[2]) :
            pr \in {x \in PathsOfLength(track_id, n - 1) \X graph :
                      /\ x[2].source = x[1][Len(x[1])].target
                      /\ \A i \in 1..Len(x[1]) : x[1][i] # x[2]}}

\* reduce(score = 1.0, rel in relationships(path) | score * rel.similarity),
\* in millionths
RECURSIVE Product(_)
Product(path) ==
    IF path = <<>> THEN 1 ELSE path[1].similarity * Product(Tail(path))

PathScore(path) == Product(path) * 100 ^ (MaxHops - Len(path))

\* neo4j_client.py 94-103: the rows of RETURN DISTINCT: one for every
\* distinct (track_id, cluster_id, hops, path_score) over the paths of 1 to
\* max_hops relationships that end at another track than the source
SimilarRows(track_id, max_hops) ==
    {[track_id |-> path[Len(path)].target,
      cluster_id |-> path[Len(path)].target % 2,
      hops |-> Len(path),
      similarity_score |-> PathScore(path)] :
        path \in {q \in UNION {PathsOfLength(track_id, n) : n \in 1..max_hops} :
                    q[Len(q)].target # track_id}}

\* ORDER BY path_score DESC, hops ASC: the orders Neo4j may return the rows in
Ordered(rows) ==
    {o \in [1..Cardinality(rows) -> rows] :
        /\ \A i, j \in DOMAIN o : i # j => o[i] # o[j]
        /\ \A i, j \in DOMAIN o :
              i < j => \/ o[i].similarity_score > o[j].similarity_score
                       \/ /\ o[i].similarity_score = o[j].similarity_score
                          /\ o[i].hops <= o[j].hops}

\* neo4j_client.py 81-114: find_similar_tracks; the results it may return.
\* With _driver None the call of session() raises, which is caught.
FindSimilarTracks(track_id, max_hops, limit) ==
    IF _driver = "Driver" /\ neo4j_server = "up"
    THEN {Limit(o, limit) : o \in Ordered(SimilarRows(track_id, max_hops))}
    ELSE {<<>>}

\* mongo_client.py 252-258: get_track_by_id; <<>> stands for None
GetTrackById(track_id) ==
    LET found == SelectSeq(collection, LAMBDA d : d.track_id = track_id)
    IN  IF mongo_server = "up" /\ found # <<>> THEN found[1] ELSE <<>>

\* mongo_client.py 260-267: get_tracks_by_ids
GetTracksByIds(track_ids) ==
    IF mongo_server = "up"
    THEN SelectSeq(collection,
                   LAMBDA d : \E i \in DOMAIN track_ids : d.track_id = track_ids[i])
    ELSE <<>>

\* int() on the argument strings of the model
Parseable(str) == str \in {"0", "1", "2", "3", "4", "20"}

IntOf(str) ==
    CASE str = "0" -> 0
      [] str = "1" -> 1
      [] str = "2" -> 2
      [] str = "3" -> 3
      [] str = "4" -> 4
      [] str = "20" -> 20

\* round(x, 4): millionths to ten-thousandths
Round4(x) == (x + 50) \div 100

\* recommendations.py 79-86: the MongoDB document without _id, with the
\* score and the hops of the Neo4j row
Recommendation(neo4j_track, doc) ==
    [f \in {"similarity_score", "hops"} |->
        IF f = "hops" THEN neo4j_track.hops
        ELSE Round4(neo4j_track.similarity_score)]
    @@ StripId(doc)

\* recommendations.py 72-86: the rows whose track_id is in tracks_map, in
\* the order of the Neo4j result
RECURSIVE Combine(_, _)
Combine(similar_tracks_neo4j, similar_tracks_full) ==
    IF similar_tracks_neo4j = <<>> THEN <<>>
    ELSE LET neo4j_track == Head(similar_tracks_neo4j)
             docs == SelectSeq(similar_tracks_full,
                               LAMBDA d : d.track_id = neo4j_track.track_id)
         IN  (IF docs = <<>> THEN <<>>
              ELSE <<Recommendation(neo4j_track, docs[Len(docs)])>>)
             \o Combine(Tail(similar_tracks_neo4j), similar_tracks_full)

\* recommendations.py 15-118: recommend_tracks(track_id)
RecommendTracks ==
    /\ request.route = "recommend"
    /\ response = NoResponse
    /\ LET hops == ArgsGet(request.args, "hops", "2")
           limit == ArgsGet(request.args, "limit", "20")
       IN  IF ~Parseable(hops) \/ ~Parseable(limit)
           THEN /\ response' = [status |-> 400,
                                body |-> [error |-> "Invalid parameter values"]]
                /\ queried' = <<>>
           ELSE IF IntOf(hops) < 1 \/ IntOf(hops) > MaxHops
           THEN /\ response' = [status |-> 400,
                                body |-> [error |-> "Invalid hops parameter"]]
                /\ queried' = <<>>
           ELSE IF GetTrackById(request.track_id) = <<>>
           THEN /\ response' = [status |-> 404,
                                body |-> [error |-> "Source track not found",
                                          track_id |-> request.track_id]]
                /\ queried' = <<"tracks.find_one">>
           ELSE \E similar_tracks_neo4j \in
                     FindSimilarTracks(request.track_id, IntOf(hops), IntOf(limit)) :
                  IF similar_tracks_neo4j = <<>>
                  THEN /\ response' =
                            [status |-> 200,
                             body |-> [source_track |-> request.track_id,
                                       recommendations |-> <<>>,
                                       count |-> 0,
                                       message |-> "No similar tracks found"]]
                       /\ queried' = <<"tracks.find_one", "neo4j.run">>
                  ELSE LET similar_track_ids ==
                               [i \in DOMAIN similar_tracks_neo4j |->
                                   similar_tracks_neo4j[i].track_id]
                           recommendations ==
                               Combine(similar_tracks_neo4j,
                                       GetTracksByIds(similar_track_ids))
                       IN  /\ response' =
                                [status |-> 200,
                                 body |-> [source_track |-> request.track_id,
                                           parameters |-> [max_hops |-> IntOf(hops),
                                                           limit |-> IntOf(limit)],
                                           count |-> Len(recommendations),
                                           recommendations |-> recommendations]]
                           /\ queried' = <<"tracks.find_one", "neo4j.run",
                                           "tracks.find">>
    /\ UNCHANGED <<pipeline, classes, scripts, mongo_server, neo4j_server, _client, _driver, collection,
                   graph, request>>

\* The query strings of GET /api/recommend/<track_id>
RecommendArgs ==
    {<<>>, [hops |-> "0"], [hops |-> "1"], [hops |-> "3"], [hops |-> "4"],
     [hops |-> "x"], [hops |-> "3", limit |-> "1"], [limit |-> "x"]}

\* The requests: track MaxNodes + 1 is in neither database
Requests ==
    {[route |-> "health"]}
    \cup {[route |-> "search", body |-> b] : b \in Bodies}
    \cup {[route |-> "mood", args |-> a] :
             a \in {<<>>} \cup {[mood |-> m] : m \in MoodArgs}}
    \cup {[route |-> "recommend", track_id |-> t, args |-> a] :
             t \in 1..(MaxNodes + 1), a \in RecommendArgs}

\* app.py 43-48: a request reaches the handler of its route once the module
\* is imported and the previous request is answered.  Whether the servers
\* answer during the request is drawn with it.
Receive ==
    /\ _client # "unset" /\ _driver # "unset"
    /\ request = NoRequest \/ response # NoResponse
    /\ request' \in Requests
    /\ response' = NoResponse
    /\ queried' = <<>>
    /\ mongo_server' \in ServerStates
    /\ neo4j_server' \in ServerStates
    /\ UNCHANGED <<pipeline, classes, scripts, _client, _driver, collection, graph>>

InitApi ==
    /\ PipelineIdle
    /\ ClassesIdle
    /\ ScriptsIdle
    /\ mongo_server \in ServerStates
    /\ neo4j_server \in ServerStates
    /\ _client = "unset"
    /\ _driver = "unset"
    /\ collection \in Collections
    /\ graph \in Graphs
    /\ request = NoRequest
    /\ response = NoResponse
    /\ queried = <<>>

NextApi ==
    \/ InitializeMongo
    \/ InitializeNeo4j
    \/ Receive
    \/ Health
    \/ SearchTracks
    \/ SearchMood
    \/ RecommendTracks

SpecApi == InitApi /\ [][NextApi]_vars

-----------------------------------------------------------------------------
(* Properties of the API server *)

\* The handler of the route has answered the request
Responded(route) == request.route = route /\ response # NoResponse

\* The request carries no filter object (no body, or JSON null) or an empty one
NoFilters ==
    \/ request.body.kind = "absent"
    \/ /\ request.body.kind = "json"
       /\ request.body.value \in {Null, Object(<<>>)}

NonEmptyFilters ==
    /\ request.body.kind = "json"
    /\ request.body.value.type = "object"
    /\ DOMAIN request.body.value.value # {}

\* C22 (as claimed): POST /api/search with an absent or empty filter object
\* is answered 400 with an 'error' field and without a database query; with
\* a non-empty filter object it is answered 200 with 'results' and 'count',
\* count being the number of results, or 500.
C22_SearchStatus ==
    Responded("search") =>
        /\ NoFilters =>
              /\ response.status = 400
              /\ "error" \in DOMAIN response.body
              /\ queried = <<>>
        /\ NonEmptyFilters =>
              \/ response.status = 500
              \/ /\ response.status = 200
                 /\ {"results", "count"} \subseteq DOMAIN response.body
                 /\ response.body.count = Len(response.body.results)

\* C23: GET /api/health is answered 200 with 'status' and 'databases', and
\* 'status' is 'healthy' exactly when the connection checks of both clients
\* succeed, 'degraded' otherwise.
C23_HealthAlways200 ==
    Responded("health") =>
        /\ response.status = 200
        /\ {"status", "databases"} \subseteq DOMAIN response.body
        /\ response.body.status =
              IF MongoCheckConnection /\ Neo4jCheckConnection
              THEN "healthy" ELSE "degraded"

\* A degraded answer while one of the two checks succeeds
C23_Witness ==
    /\ Responded("health")
    /\ response.body.status = "degraded"
    /\ _client = "None"
    /\ mongo_server = "up"
    /\ Neo4jCheckConnection

\* The six moods of the API
SupportedMoods == {"happy", "energetic", "calm", "sad", "workout", "chill"}

\* C26 (as claimed): GET /api/mood without a mood is answered 400 with an
\* error, and the 400 'Invalid mood' answer is given only to a mood that is
\* not one of the six supported moods.
C26_InvalidMoodOnlyForUnsupported ==
    Responded("mood") =>
        /\ "mood" \notin DOMAIN request.args =>
              response.status = 400 /\ "error" \in DOMAIN response.body
        /\ (response.status = 400 /\ response.body.error = "Invalid mood") =>
              Lower(request.args.mood) \notin SupportedMoods

\* The request names valid integers for hops and limit, hops in 1..3
ValidHops ==
    /\ Parseable(ArgsGet(request.args, "hops", "2"))
    /\ Parseable(ArgsGet(request.args, "limit", "20"))
    /\ IntOf(ArgsGet(request.args, "hops", "2")) \in 1..3

OutOfRangeHops ==
    /\ Parseable(ArgsGet(request.args, "hops", "2"))
    /\ Parseable(ArgsGet(request.args, "limit", "20"))
    /\ IntOf(ArgsGet(request.args, "hops", "2")) \notin 1..3

\* The source track has a document, and both databases answer
SourceExists == \E i \in DOMAIN collection : collection[i].track_id = request.track_id

BothAnswer ==
    mongo_server = "up" /\ _driver = "Driver" /\ neo4j_server = "up"

\* The rows of a traversal result whose track has a document
WithDocument(rows) ==
    SelectSeq(rows, LAMBDA r : \E i \in DOMAIN collection :
                                   collection[i].track_id = r.track_id)

\* C29 without its clause on repeated track ids: the recommendations are
\* the traversal results whose track_id has a MongoDB document, in Neo4j's
\* order, each with that result's hops and rounded score, and count is the
\* length of the list; hops out of range is answered 400, and an unknown
\* source track 404 before Neo4j is queried.
RecommendationsFollowTraversal ==
    (Responded("recommend") /\ BothAnswer) =>
        /\ (ValidHops /\ SourceExists) =>
              /\ response.status = 200
              /\ response.body.count = Len(response.body.recommendations)
              /\ \E rows \in FindSimilarTracks(
                                 request.track_id,
                                 IntOf(ArgsGet(request.args, "hops", "2")),
                                 IntOf(ArgsGet(request.args, "limit", "20"))) :
                    LET kept == WithDocument(rows)
                        recs == response.body.recommendations
                    IN  /\ Len(recs) = Len(kept)
                        /\ \A i \in DOMAIN recs :
                              /\ recs[i].track_id = kept[i].track_id
                              /\ recs[i].hops = kept[i].hops
                              /\ recs[i].similarity_score * 100
                                    - kept[i].similarity_score \in -50..49
        /\ OutOfRangeHops => response.status = 400
        /\ (ValidHops /\ ~SourceExists) =>
              /\ response.status = 404
              /\ \A i \in DOMAIN queried : queried[i] # "neo4j.run"

\* C29 (as claimed): for valid hops and an existing source track the
\* recommendations are the traversal results whose track_id has a MongoDB
\* document, in Neo4j's order, each with that result's hops and rounded
\* score, no track_id twice, and count is the length of the list; hops out
\* of range is answered 400, and an unknown source track 404 before Neo4j
\* is queried.
C29_RecommendationsAreTraversalResults ==
    /\ RecommendationsFollowTraversal
    /\ (Responded("recommend") /\ BothAnswer /\ ValidHops /\ SourceExists) =>
          \A i, j \in DOMAIN response.body.recommendations :
              i # j => response.body.recommendations[i].track_id
                         # response.body.recommendations[j].track_id

\* The filter objects and track ids the query methods are called with
FilterObjects == {v \in JsonValues : v.type = "object"}

AllTrackIds == [i \in 1..MaxNodes |-> i]

\* The Neo4j client after a failed connection attempt
Neo4jFailedAnswersEmpty ==
    _driver = "None" =>
        /\ ~Neo4jCheckConnection
        /\ \A t \in 1..MaxNodes, h \in 1..MaxHops :
              FindSimilarTracks(t, h, 20) = {<<>>}

\* C30 (as claimed): a client whose initial connection attempt failed
\* reports check_connection() False and answers every query method with an
\* empty result; it stays disconnected.
C30_FailedClientAnswersEmpty ==
    /\ _client = "None" =>
          /\ ~MongoCheckConnection
          /\ \A f \in FilterObjects : SearchByFeatures(f).results = <<>>
          /\ \A m \in MoodArgs : SearchByMood(m).results = <<>>
          /\ \A t \in 1..MaxNodes : GetTrackById(t) = <<>>
          /\ GetTracksByIds(AllTrackIds) = <<>>
    /\ Neo4jFailedAnswersEmpty

-----------------------------------------------------------------------------
(* extract_playlist_ids (data_collection/spotify_collector.py 271-301)       *)
(*                                                                           *)
(* The input text is a sequence of tokens: the URL prefix                    *)
(* "https://open.spotify.com/playlist/", a run of alphanumeric characters    *)
(* (named by a number, with its length), a delimiter (commas and white       *)
(* space), and a query string "?si=...".  Two runs never stand side by       *)
(* side: they would be one run.                                              *)

MaxTokens == 4   \* tokens in the input text

\* Length of a playlist id (spotify_collector.py 298)
IdLength == 22

\* Runs 1 and 2 have the length of an id, run 3 is one character short
Tokens ==
    {[kind |-> "prefix"], [kind |-> "delim"], [kind |-> "query"],
     [kind |-> "alnum", id |-> 1, len |-> IdLength],
     [kind |-> "alnum", id |-> 2, len |-> IdLength],
     [kind |-> "alnum", id |-> 3, len |-> IdLength - 1]}

Texts ==
    {t \in UNION {[1..n -> Tokens] : n \in 0..MaxTokens} :
        \A i \in 1..(Len(t) - 1) : ~(t[i].kind = "alnum" /\ t[i + 1].kind = "alnum")}

\* line 290: re.findall(r'spotify\.com/playlist/([a-zA-Z0-9]+)', input_text):
\* the run after each prefix, in order
RECURSIVE FindAllUrls(_)
FindAllUrls(text) ==
    IF Len(text) < 2 THEN <<>>
    ELSE IF text[1].kind = "prefix" /\ text[2].kind = "alnum"
         THEN <<text[2].id>> \o FindAllUrls(Tail(Tail(text)))
         ELSE FindAllUrls(Tail(text))

\* line 296: re.split(r'[,\s\n]+', input_text.strip()): the parts between
\* delimiters, each a sequence of tokens
RECURSIVE Split(_, _)
Split(text, part) ==
    IF text = <<>> THEN (IF part = <<>> THEN <<>> ELSE <<part>>)
    ELSE IF text[1].kind = "delim"
         THEN (IF part = <<>> THEN <<>> ELSE <<part>>) \o Split(Tail(text), <<>>)
         ELSE Split(Tail(text), Append(part, text[1]))

\* line 298: part and len(part) == 22 and part.isalnum()
IsId(part) == Len(part) = 1 /\ part[1].kind = "alnum" /\ part[1].len = IdLength

\* lines 297-299: the ids among the parts
BareIds(text) ==
    LET ids == SelectSeq(Split(text, <<>>), IsId)
    IN  [i \in DOMAIN ids |-> ids[i][1].id]

\* lines 284-301
ExtractPlaylistIdsOf(text) ==
    LET url_matches == FindAllUrls(text)
    IN  IF url_matches # <<>> THEN url_matches ELSE BareIds(text)

\* extract_playlist_ids(input_text) is called and returns
ExtractPlaylistIds ==
    /\ playlist_ids = NotCalled
    /\ playlist_ids' = [returned |-> TRUE, value |-> ExtractPlaylistIdsOf(input_text)]
    /\ UNCHANGED <<pipeline, api, classes, converter, loader, input_text>>

InitIds ==
    /\ PipelineIdle
    /\ ApiIdle
    /\ ClassesIdle
    /\ ConverterIdle
    /\ LoaderIdle
    /\ input_text \in Texts
    /\ playlist_ids = NotCalled

NextIds == ExtractPlaylistIds

SpecIds == InitIds /\ [][NextIds]_vars

\* The elements of a list
Elements(list) == {list[i] : i \in DOMAIN list}

\* C25 (as claimed): from an input holding playlist URLs and bare
\* 22-character ids, extract_playlist_ids returns the id of every URL and
\* every bare id in it.
C25_EveryUrlAndBareIdReturned ==
    playlist_ids.returned =>
        /\ Elements(FindAllUrls(input_text)) \subseteq Elements(playlist_ids.value)
        /\ Elements(BareIds(input_text)) \subseteq Elements(playlist_ids.value)

-----------------------------------------------------------------------------
(* convert_csv_to_json (data_collection/kaggle_conversion.py 46-136)         *)
(*                                                                           *)
(* A data row of the CSV file has a track_name, an artist_names and the      *)
(* remaining columns, of which the model keeps whether the conversions of    *)
(* lines 89-112 succeed on them (parseable) or raise ValueError or KeyError. *)

MaxRows == 3   \* data rows of the CSV file

\* str.strip() on the strings of the model
Strip(str) == IF str = "song " THEN "song" ELSE str

CsvRows ==
    [track_name : {"Song", "song ", "Other"}, artist_names : {"A", "a"},
     parseable : BOOLEAN]

CsvFiles == UNION {[1..n -> CsvRows] : n \in 0..MaxRows}

\* lines 60-64: combo_key
ComboKey(title, artist) == <<Lower(Strip(title)), Lower(Strip(artist))>>

\* lines 93-112: the track of a row
TrackOf(r) == [title |-> r.track_name, artist |-> r.artist_names]

\* lines 55-117: one pass of the loop over the rows
ConvertRow ==
    /\ row_num <= Len(csv_file)
    /\ output_file = NotWrittenYet
    /\ LET r == csv_file[row_num]
           combo_key == ComboKey(r.track_name, r.artist_names)
       IN  IF combo_key \in seen_combinations
           THEN /\ duplicate_count' = duplicate_count + 1
                /\ UNCHANGED <<seen_combinations, tracks, skipped_count>>
           ELSE /\ seen_combinations' = seen_combinations \cup {combo_key}
                /\ IF r.parseable
                   THEN /\ tracks' = Append(tracks, TrackOf(r))
                        /\ UNCHANGED skipped_count
                   ELSE /\ skipped_count' = skipped_count + 1
                        /\ UNCHANGED tracks
                /\ UNCHANGED duplicate_count
    /\ row_num' = row_num + 1
    /\ UNCHANGED <<pipeline, api, classes, collector, loader, csv_file, output_file>>

\* lines 128-136: json.dump(tracks, f)
SaveJson ==
    /\ row_num > Len(csv_file)
    /\ output_file = NotWrittenYet
    /\ output_file' = [saved |-> TRUE, tracks |-> tracks]
    /\ UNCHANGED <<pipeline, api, classes, collector, loader, csv_file, row_num,
                   tracks, skipped_count, duplicate_count, seen_combinations>>

InitCsv ==
    /\ PipelineIdle
    /\ ApiIdle
    /\ ClassesIdle
    /\ CollectorIdle
    /\ LoaderIdle
    /\ csv_file \in CsvFiles
    /\ row_num = 1
    /\ tracks = <<>>
    /\ skipped_count = 0
    /\ duplicate_count = 0
    /\ seen_combinations = {}
    /\ output_file = NotWrittenYet

NextCsv == ConvertRow \/ SaveJson

SpecCsv == InitCsv /\ [][NextCsv]_vars

\* The case-insensitive (title, artist) keys that have a parseable row
ParseableKeys ==
    {<<Lower(Strip(csv_file[i].track_name)), Lower(Strip(csv_file[i].artist_names))>> :
        i \in {j \in DOMAIN csv_file : csv_file[j].parseable}}

SavedKeys ==
    [i \in DOMAIN output_file.tracks |->
        <<Lower(Strip(output_file.tracks[i].title)),
          Lower(Strip(output_file.tracks[i].artist))>>]

\* Every row is an emitted track, a duplicate or a skipped row
EveryRowCountedOnce ==
    output_file.saved =>
        Len(output_file.tracks) + duplicate_count + skipped_count = Len(csv_file)

\* At most one track is emitted for a key
AtMostOneTrackPerKey ==
    output_file.saved =>
        \A i, j \in DOMAIN SavedKeys : i # j => SavedKeys[i] # SavedKeys[j]

\* C28 (as claimed): exactly one track is emitted for every distinct
\* case-insensitive (title, artist) key that has a parseable row, whatever
\* the order of the rows, and every row is counted once as an emitted
\* track, a duplicate or a skipped row.
C28_OneTrackPerParseableKey ==
    output_file.saved =>
        /\ Elements(SavedKeys) = ParseableKeys
        /\ Len(output_file.tracks) = Cardinality(ParseableKeys)
        /\ Len(output_file.tracks) + duplicate_count + skipped_count = Len(csv_file)

-----------------------------------------------------------------------------
(* load_mongodb (database_setup/load_mongo.py 15-139)                        *)
(*                                                                           *)
(* The loader works on the tracks collection the API reads.  Whether the     *)
(* server answers is drawn anew at every step that talks to it.  A document  *)
(* inserted by this run gets an _id above MaxNodes; the documents found at   *)
(* the start have the _id values 1..MaxNodes.                                *)

\* The processed JSON file: missing, not JSON, or a list of 0..MaxNodes tracks
JsonFiles ==
    {[state |-> "missing"], [state |-> "unreadable"]}
    \cup {[state |-> "json", tracks |-> [i \in 1..n |-> StripId(Doc(i))]] :
             n \in 0..MaxNodes}

\* line 69: the documents insert_many stores for the first n tracks
Inserted(new_tracks, n) ==
    [i \in 1..n |-> [f \in {"_id"} |-> MaxNodes + i] @@ new_tracks[i]]

\* load_mongodb returns early (lines 31, 48, 58, 73, 76) or is left by an
\* exception
LoaderFails ==
    /\ loader_pc' = "returned"
    /\ loader_result' = "failed"

\* lines 26-31: os.path.exists(json_file)
CheckFile ==
    /\ loader_pc = "exists"
    /\ IF json_file.state = "missing"
       THEN LoaderFails
       ELSE loader_pc' = "connect" /\ UNCHANGED loader_result
    /\ UNCHANGED <<pipeline, classes, collector, converter, mongo_server, neo4j_server,
                   _client, _driver, collection, graph, request, response, queried,
                   json_file, loader_tracks>>

\* lines 33-48: MongoClient(mongo_uri) and the ping
Connect ==
    /\ loader_pc = "connect"
    /\ mongo_server' \in ServerStates
    /\ IF mongo_server' = "up"
       THEN loader_pc' = "load" /\ UNCHANGED loader_result
       ELSE LoaderFails
    /\ UNCHANGED <<pipeline, classes, collector, converter, neo4j_server,
                   _client, _driver, collection, graph, request, response, queried,
                   json_file, loader_tracks>>

\* lines 50-58: json.load
LoadJson ==
    /\ loader_pc = "load"
    /\ IF json_file.state = "unreadable"
       THEN LoaderFails /\ UNCHANGED loader_tracks
       ELSE /\ loader_tracks' = json_file.tracks
            /\ loader_pc' = "clear"
            /\ UNCHANGED loader_result
    /\ UNCHANGED <<pipeline, classes, collector, converter, mongo_server, neo4j_server,
                   _client, _driver, collection, graph, request, response, queried,
                   json_file>>

\* lines 60-63: the collection is cleared; an exception of delete_many is
\* not caught
ClearCollection ==
    /\ loader_pc = "clear"
    /\ mongo_server' \in ServerStates
    /\ IF mongo_server' = "up"
       THEN /\ collection' = <<>>
            /\ loader_pc' = "insert"
            /\ UNCHANGED loader_result
       ELSE LoaderFails /\ UNCHANGED collection
    /\ UNCHANGED <<pipeline, classes, collector, converter, neo4j_server,
                   _client, _driver, graph, request, response, queried,
                   json_file, loader_tracks>>

\* lines 65-76: insert_many(tracks), or the return on an empty list.  A
\* failing insert_many has stored the documents before the failing one.
InsertTracks ==
    /\ loader_pc = "insert"
    /\ IF loader_tracks # <<>>
       THEN /\ mongo_server' \in ServerStates
            /\ IF mongo_server' = "up"
               THEN \/ /\ collection' = collection \o
                                           Inserted(loader_tracks, Len(loader_tracks))
                       /\ loader_pc' = "index"
                       /\ UNCHANGED loader_result
                    \/ /\ \E n \in 0..(Len(loader_tracks) - 1) :
                             collection' = collection \o Inserted(loader_tracks, n)
                       /\ LoaderFails
               ELSE LoaderFails /\ UNCHANGED collection
       ELSE LoaderFails /\ UNCHANGED <<collection, mongo_server>>
    /\ UNCHANGED <<pipeline, classes, collector, converter, neo4j_server,
                   _client, _driver, graph, request, response, queried,
                   json_file, loader_tracks>>

\* lines 78-104: create_index; a failure is reported and the run goes on
CreateIndexes ==
    /\ loader_pc = "index"
    /\ mongo_server' \in ServerStates
    /\ loader_pc' = "verify"
    /\ UNCHANGED <<pipeline, classes, collector, converter, neo4j_server,
                   _client, _driver, collection, graph, request, response, queried,
                   json_file, loader_tracks, loader_result>>

\* lines 106-139: the counts and samples are read and the function returns;
\* an exception of the driver is not caught
VerifyData ==
    /\ loader_pc = "verify"
    /\ mongo_server' \in ServerStates
    /\ loader_pc' = "returned"
    /\ loader_result' = IF mongo_server' = "up" THEN "loaded" ELSE "failed"
    /\ UNCHANGED <<pipeline, classes, collector, converter, neo4j_server,
                   _client, _driver, collection, graph, request, response, queried,
                   json_file, loader_tracks>>

\* load_mongodb is run on a collection that holds documents
InitLoad ==
    /\ PipelineIdle
    /\ ClassesIdle
    /\ CollectorIdle
    /\ ConverterIdle
    /\ mongo_server \in ServerStates
    /\ neo4j_server = "down"
    /\ _client = "unset"
    /\ _driver = "unset"
    /\ collection \in Collections \ {<<>>}
    /\ graph = {}
    /\ request = NoRequest
    /\ response = NoResponse
    /\ queried = <<>>
    /\ json_file \in JsonFiles
    /\ loader_pc = "exists"
    /\ loader_tracks = <<>>
    /\ loader_result = "running"

NextLoad ==
    \/ CheckFile
    \/ Connect
    \/ LoadJson
    \/ ClearCollection
    \/ InsertTracks
    \/ CreateIndexes
    \/ VerifyData

SpecLoad == InitLoad /\ [][NextLoad]_vars

\* The collection holds documents, all of them from before the run
ExistingContents ==
    /\ collection # <<>>
    /\ \A i \in DOMAIN collection : collection[i]["_id"] <= MaxNodes

\* The collection holds the full new track list and nothing else
FullNewList ==
    /\ json_file.state = "json"
    /\ StripIds(collection) = json_file.tracks
    /\ \A i \in DOMAIN collection : collection[i]["_id"] > MaxNodes

\* C27 (as claimed): when load_mongodb fails at any step the existing
\* contents of the tracks collection are unchanged; the collection is
\* cleared only in runs that then insert the full new track list.
C27_FailureLeavesCollection ==
    /\ loader_result = "failed" => ExistingContents
    /\ (loader_pc = "returned" /\ ~ExistingContents) => FullNewList

\* Up to the clearing step the collection is as it was
UnchangedBeforeClearing ==
    loader_pc \in {"exists", "connect", "load", "clear"} => ExistingContents

-----------------------------------------------------------------------------
(* The singleton constructors: MongoDBClient.__new__ (mongo_client.py 20-24) *)
(* and Neo4jClient.__new__ (neo4j_client.py 18-22)                           *)
(*                                                                           *)
(* Threads call the constructors.  __new__ takes no lock, so a thread can    *)
(* be suspended between any two of its statements: the test of               *)
(* cls._instance, the creation and assignment of the object, the call of     *)
(* _initialize on cls._instance, and the return of cls._instance.            *)

MaxThreads == 2   \* threads that call constructors
MaxCalls == 2     \* constructor calls of one thread

Classes == {"MongoDBClient", "Neo4jClient"}

Threads == 1..MaxThreads

\* cls._instance is None
None == 0

\* A thread calls cls()
NewEnter(t, cls) ==
    /\ thread[t].pc = "outside"
    /\ Len(thread[t].returned) < MaxCalls
    /\ thread' = [thread EXCEPT ![t].pc = "test", ![t].cls = cls]
    /\ UNCHANGED <<pipeline, api, scripts, _instance, objects>>

\* line 21 (19 in neo4j_client.py): if cls._instance is None
NewTest(t) ==
    /\ thread[t].pc = "test"
    /\ thread' = [thread EXCEPT
                    ![t].pc = IF _instance[thread[t].cls] = None THEN "create"
                              ELSE "return"]
    /\ UNCHANGED <<pipeline, api, scripts, _instance, objects>>

\* line 22: cls._instance = super().__new__(cls): a new object, on which
\* _initialize has not run
NewCreate(t) ==
    /\ thread[t].pc = "create"
    /\ LET cls == thread[t].cls
       IN  /\ objects' = [objects EXCEPT ![cls] = Append(objects[cls], 0)]
           /\ _instance' = [_instance EXCEPT ![cls] = Len(objects[cls]) + 1]
    /\ thread' = [thread EXCEPT ![t].pc = "initialize"]
    /\ UNCHANGED <<pipeline, api, scripts>>

\* line 23: cls._instance._initialize(), on the object cls._instance is now
NewInitialize(t) ==
    /\ thread[t].pc = "initialize"
    /\ LET cls == thread[t].cls
       IN  objects' = [objects EXCEPT ![cls][_instance[cls]] = @ + 1]
    /\ thread' = [thread EXCEPT ![t].pc = "return"]
    /\ UNCHANGED <<pipeline, api, scripts, _instance>>

\* line 24: return cls._instance
NewReturn(t) ==
    /\ thread[t].pc = "return"
    /\ thread' = [thread EXCEPT
                    ![t].pc = "outside",
                    ![t].returned = Append(@, [cls |-> thread[t].cls,
                                               object |-> _instance[thread[t].cls]])]
    /\ UNCHANGED <<pipeline, api, scripts, _instance, objects>>

InitNew ==
    /\ PipelineIdle
    /\ ApiIdle
    /\ ScriptsIdle
    /\ _instance = [cls \in Classes |-> None]
    /\ objects = [cls \in Classes |-> <<>>]
    /\ thread = [t \in Threads |-> [pc |-> "outside", cls |-> "none", returned |-> <<>>]]

NextNew ==
    \E t \in Threads :
        \/ \E cls \in Classes : NewEnter(t, cls)
        \/ NewTest(t)
        \/ NewCreate(t)
        \/ NewInitialize(t)
        \/ NewReturn(t)

SpecNew == InitNew /\ [][NextNew]_vars

\* The runs of _initialize on the objects of a class
RECURSIVE Sum(_)
Sum(counts) == IF counts = <<>> THEN 0 ELSE Head(counts) + Sum(Tail(counts))

\* The objects the calls of cls() have returned
ReturnedObjects(cls) ==
    UNION {{thread[t].returned[i].object :
               i \in {j \in DOMAIN thread[t].returned :
                         thread[t].returned[j].cls = cls}} : t \in Threads}

\* C24 (as claimed): over any interleaving of constructor calls at most one
\* instance of each class is created, _initialize runs at most once, and
\* every call returns that same instance.
C24_AtMostOneInstance ==
    \A cls \in Classes :
        /\ Len(objects[cls]) <= 1
        /\ Sum(objects[cls]) <= 1
        /\ Cardinality(ReturnedObjects(cls)) <= 1

====
